---- MODULE Spec2Model ----
(***************************************************************************)
(* State-machine model of the DriverPerformance contract                   *)
(* (src/unnamed/part_000, the full contract).  Every external function is  *)
(* one action; a reverting call leaves storage unchanged, emits nothing    *)
(* and records the error in `call`.  `events` holds the logs of the last   *)
(* transaction (its receipt), `acl` is the coprocessor's access ledger.    *)
(***************************************************************************)
EXTENDS Integers, Sequences, FiniteSets, TLC

VARIABLES driverOrderCounts, driverPerformanceResults, registeredDrivers,
          registeredDriverList, targetThreshold, owner, paused,
          cachedDriverCount, cachedThreshold, acl, events, call

storage == <<driverOrderCounts, driverPerformanceResults, registeredDrivers,
             registeredDriverList, targetThreshold, owner, paused,
             cachedDriverCount, cachedThreshold, acl>>

vars == <<driverOrderCounts, driverPerformanceResults, registeredDrivers,
          registeredDriverList, targetThreshold, owner, paused,
          cachedDriverCount, cachedThreshold, acl, events, call>>

----------------------------------------------------------------------------
(* Program constants *)

MAX_BATCH_SIZE == 100

GAS_BUFFER == 30000

DEFAULT_THRESHOLD == <<0, 10>>

(* uint32, kept at its full width as two 16-bit limbs <<high, low>>       *)

LimbBase == 65536

U32(n) == <<n \div LimbBase, n % LimbBase>>

MaxUint32 == <<LimbBase - 1, LimbBase - 1>>

U32Gt(a, b) == a[1] > b[1] \/ (a[1] = b[1] /\ a[2] > b[2])

U32Ge(a, b) == a = b \/ U32Gt(a, b)

\* unchecked addition: the sum modulo 2^32, never a failure
U32AddWrapping(a, b) ==
    LET low == a[2] + b[2]
        high == a[1] + b[1] + (low \div LimbBase)
    IN  [ok |-> TRUE, val |-> <<high % LimbBase, low % LimbBase>>]

\* checked addition: ok is FALSE when the sum does not fit in 32 bits
U32Add(a, b) ==
    LET low == a[2] + b[2]
        high == a[1] + b[1] + (low \div LimbBase)
    IN  [ok |-> high < LimbBase, val |-> <<high % LimbBase, low % LimbBase>>]

\* checked subtraction: ok is FALSE when b > a
U32Sub(a, b) ==
    LET borrow == IF a[2] < b[2] THEN 1 ELSE 0
        low == a[2] + borrow * LimbBase - b[2]
        high == a[1] - b[1] - borrow
    IN  [ok |-> high >= 0, val |-> <<high % LimbBase, low>>]

(* uint256 arguments of the pagination view: a value is either n or       *)
(* 2^256 - 1 - n for a small n                                             *)

U256(n) == [top |-> FALSE, n |-> n]

U256FromMax(n) == [top |-> TRUE, n |-> n]

\* a + b exceeds 2^256 - 1
U256AddOverflows(a, b) ==
    IF a.top /\ b.top THEN TRUE
    ELSE IF a.top THEN b.n > a.n
    ELSE IF b.top THEN a.n > b.n
    ELSE FALSE

\* a >= n, for a small n
U256Ge(a, n) == a.top \/ a.n >= n

(* Bounds of the model *)

\* longest batch input that is enumerated entry by entry
MaxBatchLen == 1

----------------------------------------------------------------------------
(* Principals *)

Null == "0x0"

This == "this"

Drivers == {"a1", "a2"}

Addresses == Drivers \cup {Null}

\* msg.sender is never the zero address
Callers == Drivers

\* a third driver, for lists with a middle element, and the key space of the
\* three mappings
ThirdDriver == "a3"

AddressSpace == Addresses \cup {ThirdDriver}

Deployer == "a1"

\* block.timestamp as seen by a call
Timestamps == {1000}

----------------------------------------------------------------------------
(* Ciphertext handles.  A handle is an opaque identifier into the          *)
(* coprocessor's state; the model writes it as the term that produced it,  *)
(* and Plain/PlainBool are the coprocessor's private plaintexts.           *)

Unset == <<"unset">>

\* external ciphertexts a caller can supply, with the plaintext they encrypt
Ciphertexts == {1, 2}

CtPlain(k) == IF k = 1 THEN U32(10) ELSE U32(7)

\* FHE.fromExternal returning one handle whatever the input
FHEfromExternalSame(k) == <<"in", 1>>

FHEfromExternal(k) == <<"in", k>>

FHEasEuint32(n) == <<"triv", n>>

FHEisInitialized(h) == h # Unset

\* FHE.gt: an uninitialised operand is replaced by the trivial encryption of 0
FHEgt(a, b) ==
    <<"gt", IF FHEisInitialized(a) THEN a ELSE FHEasEuint32(U32(0)),
            IF FHEisInitialized(b) THEN b ELSE FHEasEuint32(U32(0))>>

Plain(h) ==
    IF h[1] = "in" THEN CtPlain(h[2])
    ELSE IF h[1] = "triv" THEN h[2]
    ELSE U32(0)

\* FHE.ge, the comparison the comment in evaluatePerformance asks for
FHEge(a, b) ==
    <<"ge", IF FHEisInitialized(a) THEN a ELSE FHEasEuint32(U32(0)),
            IF FHEisInitialized(b) THEN b ELSE FHEasEuint32(U32(0))>>

PlainBool(h) ==
    IF h[1] = "gt" THEN U32Gt(Plain(h[2]), Plain(h[3]))
    ELSE IF h[1] = "ge" THEN U32Ge(Plain(h[2]), Plain(h[3]))
    ELSE FALSE

FHEdecrypt(h) == PlainBool(h)

FHEallow(ledger, h, who) == ledger \cup {<<h, who>>}

FHEallowThis(ledger, h) == FHEallow(ledger, h, This)

----------------------------------------------------------------------------
(* Events, as the records the contract emits *)

DriverRegistered(driver, registrar, ts) ==
    [kind |-> "DriverRegistered", driver |-> driver, actor |-> registrar,
     timestamp |-> ts]

DriverDeregistered(driver, deregistrar, ts) ==
    [kind |-> "DriverDeregistered", driver |-> driver, actor |-> deregistrar,
     timestamp |-> ts]

BatchOperationCompleted(operation, count, operator, ts) ==
    [kind |-> "BatchOperationCompleted", operation |-> operation,
     count |-> count, actor |-> operator, timestamp |-> ts]

\* OrderCountSubmitted naming the driver in place of the submitter
OrderCountSubmittedBySubject(driver, submitter, ts) ==
    [kind |-> "OrderCountSubmitted", driver |-> driver, actor |-> driver,
     timestamp |-> ts]

OrderCountSubmitted(driver, submitter, ts) ==
    [kind |-> "OrderCountSubmitted", driver |-> driver, actor |-> submitter,
     timestamp |-> ts]

PerformanceEvaluated(driver, result, threshold, ts) ==
    [kind |-> "PerformanceEvaluated", driver |-> driver, result |-> result,
     threshold |-> threshold, timestamp |-> ts]

TargetThresholdUpdated(oldThreshold, newThreshold, updater, ts) ==
    [kind |-> "TargetThresholdUpdated", oldThreshold |-> oldThreshold,
     newThreshold |-> newThreshold, actor |-> updater, timestamp |-> ts]

ContractPausedEvent(account, ts) ==
    [kind |-> "ContractPaused", actor |-> account, timestamp |-> ts]

ContractUnpausedEvent(account, ts) ==
    [kind |-> "ContractUnpaused", actor |-> account, timestamp |-> ts]

OwnershipTransferred(previousOwner, newOwner, ts) ==
    [kind |-> "OwnershipTransferred", previousOwner |-> previousOwner,
     newOwner |-> newOwner, timestamp |-> ts]

----------------------------------------------------------------------------
(* Outcome of a call *)

\* the last call: which function, the error it reverted with ("none" when
\* it succeeded), the handle it returned (Unset when it returns none) and
\* whether its loop left through the low-gas break; caller and arguments of
\* a successful call are in the events it emitted
CallRecord(op, err, ret, early) ==
    [op |-> op, err |-> err, ret |-> ret, early |-> early]

\* a revert: storage and ledger as before the call, no logs
Revert(op, sender, driver, err) ==
    /\ call' = CallRecord(op, err, Unset, FALSE)
    /\ events' = <<>>
    /\ UNCHANGED storage

Return(op, logs, ret, early) ==
    /\ call' = CallRecord(op, "none", ret, early)
    /\ events' = logs

Done(op, sender, driver, logs) == Return(op, logs, Unset, FALSE)

Succeeded == call.err = "none"

----------------------------------------------------------------------------
(* Modifiers: the condition under which the function body runs *)

\* onlyOwner that lets every caller through
onlyOwnerAnyone(sender) == TRUE

\* onlyOwner that lets every caller through once there is no owner
onlyOwnerOrUnowned(sender) == sender = owner \/ owner = Null

onlyOwner(sender) == sender = owner

\* whenNotPaused that never reverts
whenNotPausedAlways == TRUE

whenNotPaused == ~paused

\* whenPaused that never reverts
whenPausedAlways == TRUE

whenPaused == paused

\* a delete that leaves the entry in place
DeleteNothing(map, driver) == map

\* delete on a mapping entry
Delete(map, driver) == [map EXCEPT ![driver] = Unset]

----------------------------------------------------------------------------
(* Sequence helpers for the backing list *)

RECURSIVE IndexOfFrom(_, _, _)
\* first index >= i at which x occurs in list, 0 if none
IndexOfFrom(list, x, i) ==
    IF i > Len(list) THEN 0
    ELSE IF list[i] = x THEN i
    ELSE IndexOfFrom(list, x, i + 1)

IndexOf(list, x) == IndexOfFrom(list, x, 1)

Pop(list) == SubSeq(list, 1, Len(list) - 1)

\* overwrite position i with the last element, then pop
SwapRemove(list, i) ==
    Pop([list EXCEPT ![i] = list[Len(list)]])

Range(list) == {list[i] : i \in 1..Len(list)}

----------------------------------------------------------------------------
(* constructor, deployed with _targetThreshold = InitialThreshold *)

InitialThreshold == U32(10)

Init ==
    /\ driverOrderCounts = [d \in AddressSpace |-> Unset]
    /\ driverPerformanceResults = [d \in AddressSpace |-> Unset]
    /\ registeredDrivers = [d \in AddressSpace |-> FALSE]
    /\ registeredDriverList = <<>>
    /\ targetThreshold = InitialThreshold
    /\ cachedThreshold = InitialThreshold
    /\ owner = Deployer
    /\ paused = FALSE
    /\ cachedDriverCount = 0
    /\ acl = {}
    /\ events = <<>>
    /\ call = CallRecord("constructor", "none", Unset, FALSE)

----------------------------------------------------------------------------
(* Subject registry *)

\* registerDriver that also clears the value and result kept under the driver
registerDriverClearing(sender, driver, ts) ==
    IF driver = Null THEN
        Revert("registerDriver", sender, driver, "InvalidAddress")
    ELSE IF registeredDrivers[driver] THEN
        Revert("registerDriver", sender, driver, "DriverAlreadyRegistered")
    ELSE
        /\ registeredDrivers' = [registeredDrivers EXCEPT ![driver] = TRUE]
        /\ registeredDriverList' = Append(registeredDriverList, driver)
        /\ cachedDriverCount' = Len(registeredDriverList')
        /\ driverOrderCounts' = Delete(driverOrderCounts, driver)
        /\ driverPerformanceResults' = Delete(driverPerformanceResults, driver)
        /\ Done("registerDriver", sender, driver,
                <<DriverRegistered(driver, sender, ts)>>)
        /\ UNCHANGED <<targetThreshold, owner, paused, cachedThreshold, acl>>

\* registerDriver without the already-registered check
registerDriverNoDuplicateCheck(sender, driver, ts) ==
    IF driver = Null THEN
        Revert("registerDriver", sender, driver, "InvalidAddress")
    ELSE
        /\ registeredDrivers' = [registeredDrivers EXCEPT ![driver] = TRUE]
        /\ registeredDriverList' = Append(registeredDriverList, driver)
        /\ cachedDriverCount' = Len(registeredDriverList')
        /\ Done("registerDriver", sender, driver,
                <<DriverRegistered(driver, sender, ts)>>)
        /\ UNCHANGED <<driverOrderCounts, driverPerformanceResults,
                       targetThreshold, owner, paused, cachedThreshold, acl>>

registerDriver(sender, driver, ts) ==
    IF driver = Null THEN
        Revert("registerDriver", sender, driver, "InvalidAddress")
    ELSE IF registeredDrivers[driver] THEN
        Revert("registerDriver", sender, driver, "DriverAlreadyRegistered")
    ELSE
        /\ registeredDrivers' = [registeredDrivers EXCEPT ![driver] = TRUE]
        /\ registeredDriverList' = Append(registeredDriverList, driver)
        /\ cachedDriverCount' = Len(registeredDriverList')
        /\ Done("registerDriver", sender, driver,
                <<DriverRegistered(driver, sender, ts)>>)
        /\ UNCHANGED <<driverOrderCounts, driverPerformanceResults,
                       targetThreshold, owner, paused, cachedThreshold, acl>>

\* DeregisterList closing the gap by shifting, keeping registration order
DeregisterListShift(list, driver) ==
    LET driverIndex == IndexOf(list, driver)
        found == driverIndex # 0
    IN  IF found
        THEN SubSeq(list, 1, driverIndex - 1)
                 \o SubSeq(list, driverIndex + 1, Len(list))
        ELSE list

\* the list after deregisterDriver's search and swap-with-last removal
DeregisterList(list, driver) ==
    LET driverIndex == IndexOf(list, driver)
        found == driverIndex # 0
    IN  IF found THEN SwapRemove(list, driverIndex) ELSE list

\* deregisterDriver taking an unregistered driver as a successful no-op
deregisterDriverIdempotent(sender, driver, ts) ==
    IF driver = Null THEN
        Revert("deregisterDriver", sender, driver, "InvalidAddress")
    ELSE
        /\ registeredDrivers' = [registeredDrivers EXCEPT ![driver] = FALSE]
        /\ registeredDriverList' = DeregisterList(registeredDriverList, driver)
        /\ cachedDriverCount' = Len(registeredDriverList')
        /\ driverOrderCounts' = Delete(driverOrderCounts, driver)
        /\ driverPerformanceResults' = Delete(driverPerformanceResults, driver)
        /\ Done("deregisterDriver", sender, driver,
                <<DriverDeregistered(driver, sender, ts)>>)
        /\ UNCHANGED <<targetThreshold, owner, paused, cachedThreshold, acl>>

\* deregisterDriver behind the onlyOwner modifier
deregisterDriverOnlyOwner(sender, driver, ts) ==
    IF ~onlyOwner(sender) THEN
        Revert("deregisterDriver", sender, driver, "UnauthorizedAccess")
    ELSE IF driver = Null THEN
        Revert("deregisterDriver", sender, driver, "InvalidAddress")
    ELSE IF ~registeredDrivers[driver] THEN
        Revert("deregisterDriver", sender, driver, "UnauthorizedAccess")
    ELSE
        LET found == IndexOf(registeredDriverList, driver) # 0
        IN  /\ registeredDrivers' = [registeredDrivers EXCEPT ![driver] = FALSE]
            /\ registeredDriverList' =
                   DeregisterList(registeredDriverList, driver)
            /\ cachedDriverCount' =
                   IF found THEN Len(registeredDriverList')
                   ELSE cachedDriverCount
            /\ driverOrderCounts' = Delete(driverOrderCounts, driver)
            /\ driverPerformanceResults' =
                   Delete(driverPerformanceResults, driver)
            /\ Done("deregisterDriver", sender, driver,
                    <<DriverDeregistered(driver, sender, ts)>>)
            /\ UNCHANGED <<targetThreshold, owner, paused, cachedThreshold, acl>>

\* deregisterDriver behind the whenNotPaused modifier
deregisterDriverWhenNotPaused(sender, driver, ts) ==
    IF ~whenNotPaused THEN
        Revert("deregisterDriver", sender, driver, "ContractPaused")
    ELSE IF driver = Null THEN
        Revert("deregisterDriver", sender, driver, "InvalidAddress")
    ELSE IF ~registeredDrivers[driver] THEN
        Revert("deregisterDriver", sender, driver, "UnauthorizedAccess")
    ELSE
        LET found == IndexOf(registeredDriverList, driver) # 0
        IN  /\ registeredDrivers' = [registeredDrivers EXCEPT ![driver] = FALSE]
            /\ registeredDriverList' =
                   DeregisterList(registeredDriverList, driver)
            /\ cachedDriverCount' =
                   IF found THEN Len(registeredDriverList')
                   ELSE cachedDriverCount
            /\ driverOrderCounts' = Delete(driverOrderCounts, driver)
            /\ driverPerformanceResults' =
                   Delete(driverPerformanceResults, driver)
            /\ Done("deregisterDriver", sender, driver,
                    <<DriverDeregistered(driver, sender, ts)>>)
            /\ UNCHANGED <<targetThreshold, owner, paused, cachedThreshold, acl>>

deregisterDriver(sender, driver, ts) ==
    IF driver = Null THEN
        Revert("deregisterDriver", sender, driver, "InvalidAddress")
    ELSE IF ~registeredDrivers[driver] THEN
        Revert("deregisterDriver", sender, driver, "UnauthorizedAccess")
    ELSE
        LET found == IndexOf(registeredDriverList, driver) # 0
        IN  /\ registeredDrivers' = [registeredDrivers EXCEPT ![driver] = FALSE]
            /\ registeredDriverList' =
                   DeregisterList(registeredDriverList, driver)
            /\ cachedDriverCount' =
                   IF found THEN Len(registeredDriverList')
                   ELSE cachedDriverCount
            /\ driverOrderCounts' = Delete(driverOrderCounts, driver)
            /\ driverPerformanceResults' =
                   Delete(driverPerformanceResults, driver)
            /\ Done("deregisterDriver", sender, driver,
                    <<DriverDeregistered(driver, sender, ts)>>)
            /\ UNCHANGED <<targetThreshold, owner, paused, cachedThreshold, acl>>

----------------------------------------------------------------------------
(* Batch executor *)

\* gasleft() reading below GAS_BUFFER at every budget check
gasleftAlwaysLow(k, lowAfter) == GAS_BUFFER - 1

\* gasleft() at the k-th budget check of a call whose remaining gas first
\* reads below GAS_BUFFER at check number lowAfter
gasleft(k, lowAfter) == IF k >= lowAfter THEN GAS_BUFFER - 1 ELSE GAS_BUFFER

\* least element of a non-empty set of indices
Least(S) == CHOOSE j \in S : \A k \in S : j <= k

\* the first index >= i whose entry the register loop does not skip (a null
\* or not yet registered entry); Len(drivers) + 1 if it skips them all
NextToRegister(drivers, i, reg) ==
    LET S == {j \in i..Len(drivers) : drivers[j] = Null \/ ~reg[drivers[j]]}
    IN  IF S = {} THEN Len(drivers) + 1 ELSE Least(S)

\* NextToDeregister ending the loop at a null entry instead of skipping it
NextToDeregisterUntilNull(drivers, i, reg) ==
    LET S == {j \in i..Len(drivers) :
                 drivers[j] = Null \/ reg[drivers[j]]}
    IN  IF S = {} \/ drivers[Least(S)] = Null THEN Len(drivers) + 1
        ELSE Least(S)

\* the first index >= i whose entry the deregister loop does not skip
NextToDeregister(drivers, i, reg) ==
    LET S == {j \in i..Len(drivers) : drivers[j] # Null /\ reg[drivers[j]]}
    IN  IF S = {} THEN Len(drivers) + 1 ELSE Least(S)

RECURSIVE BatchRegisterLoopBudgetFirst(_, _, _, _, _, _, _, _)
\* BatchRegisterLoop with the budget check at the head of the loop body,
\* before the entry is looked at
BatchRegisterLoopBudgetFirst(drivers, i, reg, list, newRegistrations, logs, who, lowAfter) ==
    IF i > Len(drivers) THEN
        [ok |-> TRUE, early |-> FALSE, reg |-> reg, list |-> list,
         newRegistrations |-> newRegistrations, logs |-> logs]
    ELSE IF gasleft(newRegistrations + 1, lowAfter) < GAS_BUFFER THEN
        [ok |-> TRUE, early |-> TRUE, reg |-> reg, list |-> list,
         newRegistrations |-> newRegistrations, logs |-> logs]
    ELSE IF drivers[i] = Null THEN
        [ok |-> FALSE, early |-> FALSE, reg |-> reg, list |-> list,
         newRegistrations |-> newRegistrations, logs |-> logs]
    ELSE IF ~reg[drivers[i]] THEN
        BatchRegisterLoopBudgetFirst(
            drivers, i + 1, [reg EXCEPT ![drivers[i]] = TRUE],
            Append(list, drivers[i]), newRegistrations + 1,
            Append(logs, DriverRegistered(drivers[i], who.sender, who.ts)),
            who, lowAfter)
    ELSE BatchRegisterLoopBudgetFirst(drivers, i + 1, reg, list,
                                      newRegistrations, logs, who, lowAfter)

RECURSIVE BatchRegisterLoop(_, _, _, _, _, _, _, _)
\* the for loop of batchRegisterDrivers from index i on, i being an entry
\* that is not skipped; ok = FALSE is the failed require on a null entry
BatchRegisterLoop(drivers, i, reg, list, newRegistrations, logs, who, lowAfter) ==
    IF i > Len(drivers) THEN
        [ok |-> TRUE, early |-> FALSE, reg |-> reg, list |-> list,
         newRegistrations |-> newRegistrations, logs |-> logs]
    ELSE IF drivers[i] = Null THEN
        [ok |-> FALSE, early |-> FALSE, reg |-> reg, list |-> list,
         newRegistrations |-> newRegistrations, logs |-> logs]
    ELSE IF ~reg[drivers[i]] THEN
        LET reg2 == [reg EXCEPT ![drivers[i]] = TRUE]
            list2 == Append(list, drivers[i])
            n2 == newRegistrations + 1
            logs2 == Append(logs, DriverRegistered(drivers[i], who.sender, who.ts))
        IN  IF gasleft(n2, lowAfter) < GAS_BUFFER THEN
                [ok |-> TRUE, early |-> TRUE, reg |-> reg2, list |-> list2,
                 newRegistrations |-> n2, logs |-> logs2]
            ELSE BatchRegisterLoop(drivers,
                                   NextToRegister(drivers, i + 1, reg2),
                                   reg2, list2, n2, logs2, who, lowAfter)
    ELSE BatchRegisterLoop(drivers, NextToRegister(drivers, i + 1, reg),
                           reg, list, newRegistrations, logs, who, lowAfter)

\* BatchCount that refreshes the cache only after more than one change
BatchCountOffByOne(n, list, cached) == IF n > 1 THEN Len(list) ELSE cached

\* the cached count after a batch loop that made n changes
BatchCount(n, list, cached) == IF n > 0 THEN Len(list) ELSE cached

batchRegisterDrivers(sender, drivers, ts, lowAfter) ==
    IF ~onlyOwner(sender) THEN
        Revert("batchRegisterDrivers", sender, Null, "UnauthorizedAccess")
    ELSE IF Len(drivers) = 0 THEN
        Revert("batchRegisterDrivers", sender, Null, "EmptyDriverList")
    ELSE IF Len(drivers) > MAX_BATCH_SIZE THEN
        Revert("batchRegisterDrivers", sender, Null, "BatchSizeTooLarge")
    ELSE
        LET r == BatchRegisterLoop(drivers,
                                   NextToRegister(drivers, 1, registeredDrivers),
                                   registeredDrivers,
                                   registeredDriverList, 0, <<>>,
                                   [sender |-> sender, ts |-> ts], lowAfter)
        IN  IF ~r.ok THEN
                Revert("batchRegisterDrivers", sender, Null,
                       "Invalid driver address")
            ELSE
                /\ registeredDrivers' = r.reg
                /\ registeredDriverList' = r.list
                /\ cachedDriverCount' =
                       BatchCount(r.newRegistrations, r.list, cachedDriverCount)
                /\ Return("batchRegisterDrivers",
                          IF r.newRegistrations > 0
                          THEN Append(r.logs,
                                      BatchOperationCompleted("batch_register",
                                          r.newRegistrations, sender, ts))
                          ELSE r.logs,
                          Unset, r.early)
                /\ UNCHANGED <<driverOrderCounts, driverPerformanceResults,
                               targetThreshold, owner, paused, cachedThreshold,
                               acl>>

\* BatchRemove without the overwrite: the last element is popped instead
BatchRemoveNoSwap(list, driver) ==
    LET j == IndexOf(list, driver)
    IN  IF j # 0 THEN Pop(list) ELSE list

\* the inner loop of batchDeregisterDrivers: first match is overwritten by
\* the last element and the list is popped
BatchRemove(list, driver) ==
    LET j == IndexOf(list, driver)
    IN  IF j # 0 THEN SwapRemove(list, j) ELSE list

RECURSIVE BatchDeregisterLoop(_, _, _, _, _, _, _, _, _, _)
\* the for loop of batchDeregisterDrivers from index i on, i being an entry
\* that is not skipped
BatchDeregisterLoop(drivers, i, reg, list, counts, results, n, logs, who, low) ==
    IF i > Len(drivers) THEN
        [early |-> FALSE, reg |-> reg, list |-> list, counts |-> counts,
         results |-> results, deregisteredCount |-> n, logs |-> logs]
    ELSE IF drivers[i] # Null /\ reg[drivers[i]] THEN
        LET reg2 == [reg EXCEPT ![drivers[i]] = FALSE]
            list2 == BatchRemove(list, drivers[i])
            counts2 == Delete(counts, drivers[i])
            results2 == Delete(results, drivers[i])
            n2 == n + 1
            logs2 == Append(logs,
                            DriverDeregistered(drivers[i], who.sender, who.ts))
        IN  IF gasleft(n2, low) < GAS_BUFFER THEN
                [early |-> TRUE, reg |-> reg2, list |-> list2,
                 counts |-> counts2, results |-> results2,
                 deregisteredCount |-> n2, logs |-> logs2]
            ELSE BatchDeregisterLoop(drivers,
                                     NextToDeregister(drivers, i + 1, reg2),
                                     reg2, list2, counts2, results2, n2, logs2,
                                     who, low)
    ELSE BatchDeregisterLoop(drivers, NextToDeregister(drivers, i + 1, reg),
                             reg, list, counts, results, n, logs, who, low)

\* batchDeregisterDrivers rejecting a batch of exactly MAX_BATCH_SIZE entries
batchDeregisterDriversOffByOne(sender, drivers, ts, lowAfter) ==
    IF Len(drivers) = 0 THEN
        Revert("batchDeregisterDrivers", sender, Null, "EmptyDriverList")
    ELSE IF Len(drivers) >= MAX_BATCH_SIZE THEN
        Revert("batchDeregisterDrivers", sender, Null, "BatchSizeTooLarge")
    ELSE
        LET r == BatchDeregisterLoop(drivers,
                                     NextToDeregister(drivers, 1,
                                                      registeredDrivers),
                                     registeredDrivers,
                                     registeredDriverList, driverOrderCounts,
                                     driverPerformanceResults, 0, <<>>,
                                     [sender |-> sender, ts |-> ts], lowAfter)
        IN  /\ registeredDrivers' = r.reg
            /\ registeredDriverList' = r.list
            /\ driverOrderCounts' = r.counts
            /\ driverPerformanceResults' = r.results
            /\ cachedDriverCount' =
                   BatchCount(r.deregisteredCount, r.list, cachedDriverCount)
            /\ Return("batchDeregisterDrivers",
                      IF r.deregisteredCount > 0
                      THEN Append(r.logs,
                                  BatchOperationCompleted("batch_deregister",
                                      r.deregisteredCount, sender, ts))
                      ELSE r.logs,
                      Unset, r.early)
            /\ UNCHANGED <<targetThreshold, owner, paused, cachedThreshold, acl>>

batchDeregisterDrivers(sender, drivers, ts, lowAfter) ==
    IF Len(drivers) = 0 THEN
        Revert("batchDeregisterDrivers", sender, Null, "EmptyDriverList")
    ELSE IF Len(drivers) > MAX_BATCH_SIZE THEN
        Revert("batchDeregisterDrivers", sender, Null, "BatchSizeTooLarge")
    ELSE
        LET r == BatchDeregisterLoop(drivers,
                                     NextToDeregister(drivers, 1,
                                                      registeredDrivers),
                                     registeredDrivers,
                                     registeredDriverList, driverOrderCounts,
                                     driverPerformanceResults, 0, <<>>,
                                     [sender |-> sender, ts |-> ts], lowAfter)
        IN  /\ registeredDrivers' = r.reg
            /\ registeredDriverList' = r.list
            /\ driverOrderCounts' = r.counts
            /\ driverPerformanceResults' = r.results
            /\ cachedDriverCount' =
                   BatchCount(r.deregisteredCount, r.list, cachedDriverCount)
            /\ Return("batchDeregisterDrivers",
                      IF r.deregisteredCount > 0
                      THEN Append(r.logs,
                                  BatchOperationCompleted("batch_deregister",
                                      r.deregisteredCount, sender, ts))
                      ELSE r.logs,
                      Unset, r.early)
            /\ UNCHANGED <<targetThreshold, owner, paused, cachedThreshold, acl>>

----------------------------------------------------------------------------
(* Threshold *)

setTargetThreshold(sender, newThreshold, ts) ==
    IF ~onlyOwner(sender) THEN
        Revert("setTargetThreshold", sender, Null, "UnauthorizedAccess")
    ELSE
        /\ targetThreshold' = newThreshold
        /\ cachedThreshold' = newThreshold
        /\ Done("setTargetThreshold", sender, Null,
                <<TargetThresholdUpdated(targetThreshold, newThreshold,
                                         sender, ts)>>)
        /\ UNCHANGED <<driverOrderCounts, driverPerformanceResults,
                       registeredDrivers, registeredDriverList, owner, paused,
                       cachedDriverCount, acl>>

\* uint32 arithmetic is checked: a result outside 0..2^32-1 panics
incrementThreshold(sender, increment, ts) ==
    LET sum == U32Add(targetThreshold, increment)
        newThreshold == sum.val
    IN  IF ~sum.ok THEN
            Revert("incrementThreshold", sender, Null, "Panic")
        ELSE
            /\ targetThreshold' = newThreshold
            /\ cachedThreshold' = newThreshold
            /\ Done("incrementThreshold", sender, Null,
                    <<TargetThresholdUpdated(targetThreshold, newThreshold,
                                             sender, ts)>>)
            /\ UNCHANGED <<driverOrderCounts, driverPerformanceResults,
                           registeredDrivers, registeredDriverList, owner,
                           paused, cachedDriverCount, acl>>

decrementThreshold(sender, decrement, ts) ==
    LET difference == U32Sub(targetThreshold, decrement)
        newThreshold == difference.val
    IN  IF ~difference.ok THEN
            Revert("decrementThreshold", sender, Null, "Panic")
        ELSE
            /\ targetThreshold' = newThreshold
            /\ cachedThreshold' = newThreshold
            /\ Done("decrementThreshold", sender, Null,
                    <<TargetThresholdUpdated(targetThreshold, newThreshold,
                                             sender, ts)>>)
            /\ UNCHANGED <<driverOrderCounts, driverPerformanceResults,
                           registeredDrivers, registeredDriverList, owner,
                           paused, cachedDriverCount, acl>>

resetThresholdToDefault(sender, ts) ==
    /\ targetThreshold' = DEFAULT_THRESHOLD
    /\ cachedThreshold' = DEFAULT_THRESHOLD
    /\ Done("resetThresholdToDefault", sender, Null,
            <<TargetThresholdUpdated(targetThreshold, DEFAULT_THRESHOLD,
                                     sender, ts)>>)
    /\ UNCHANGED <<driverOrderCounts, driverPerformanceResults,
                   registeredDrivers, registeredDriverList, owner, paused,
                   cachedDriverCount, acl>>

----------------------------------------------------------------------------
(* Lifecycle and ownership *)

pause(sender, ts) ==
    IF ~onlyOwner(sender) THEN
        Revert("pause", sender, Null, "UnauthorizedAccess")
    ELSE IF ~whenNotPaused THEN
        Revert("pause", sender, Null, "ContractPaused")
    ELSE
        /\ paused' = TRUE
        /\ Done("pause", sender, Null, <<ContractPausedEvent(sender, ts)>>)
        /\ UNCHANGED <<driverOrderCounts, driverPerformanceResults,
                       registeredDrivers, registeredDriverList,
                       targetThreshold, owner, cachedDriverCount,
                       cachedThreshold, acl>>

unpause(sender, ts) ==
    IF ~onlyOwner(sender) THEN
        Revert("unpause", sender, Null, "UnauthorizedAccess")
    ELSE IF ~whenPaused THEN
        Revert("unpause", sender, Null, "ContractNotPaused")
    ELSE
        /\ paused' = FALSE
        /\ Done("unpause", sender, Null, <<ContractUnpausedEvent(sender, ts)>>)
        /\ UNCHANGED <<driverOrderCounts, driverPerformanceResults,
                       registeredDrivers, registeredDriverList,
                       targetThreshold, owner, cachedDriverCount,
                       cachedThreshold, acl>>

\* transferOwnership without the test for the null identifier
transferOwnershipAcceptsNull(sender, newOwner, ts) ==
    IF ~onlyOwner(sender) THEN
        Revert("transferOwnership", sender, Null, "UnauthorizedAccess")
    ELSE
        /\ owner' = newOwner
        /\ Done("transferOwnership", sender, Null,
                <<OwnershipTransferred(owner, newOwner, ts)>>)
        /\ UNCHANGED <<driverOrderCounts, driverPerformanceResults,
                       registeredDrivers, registeredDriverList,
                       targetThreshold, paused, cachedDriverCount,
                       cachedThreshold, acl>>

transferOwnership(sender, newOwner, ts) ==
    IF ~onlyOwner(sender) THEN
        Revert("transferOwnership", sender, Null, "UnauthorizedAccess")
    ELSE IF newOwner = Null THEN
        Revert("transferOwnership", sender, Null, "InvalidAddress")
    ELSE
        /\ owner' = newOwner
        /\ Done("transferOwnership", sender, Null,
                <<OwnershipTransferred(owner, newOwner, ts)>>)
        /\ UNCHANGED <<driverOrderCounts, driverPerformanceResults,
                       registeredDrivers, registeredDriverList,
                       targetThreshold, paused, cachedDriverCount,
                       cachedThreshold, acl>>

renounceOwnership(sender, ts) ==
    IF ~onlyOwner(sender) THEN
        Revert("renounceOwnership", sender, Null, "UnauthorizedAccess")
    ELSE
        /\ owner' = Null
        /\ Done("renounceOwnership", sender, Null,
                <<OwnershipTransferred(owner, Null, ts)>>)
        /\ UNCHANGED <<driverOrderCounts, driverPerformanceResults,
                       registeredDrivers, registeredDriverList,
                       targetThreshold, paused, cachedDriverCount,
                       cachedThreshold, acl>>

----------------------------------------------------------------------------
(* Confidential value store and threshold evaluator *)

\* SubmitGrants without the grant to the submitting caller
SubmitGrantsNoSubmitter(ledger, orderCount, driver, sender) ==
    FHEallow(FHEallowThis(ledger, orderCount), orderCount, driver)

\* the ledger after submitOrderCount's three grants
SubmitGrants(ledger, orderCount, driver, sender) ==
    FHEallow(FHEallow(FHEallowThis(ledger, orderCount), orderCount, driver),
             orderCount, sender)

submitOrderCount(sender, driver, encryptedOrderCount, proofOk, ts) ==
    IF ~whenNotPaused THEN
        Revert("submitOrderCount", sender, driver, "ContractPaused")
    ELSE IF driver = Null THEN
        Revert("submitOrderCount", sender, driver, "InvalidAddress")
    ELSE IF ~proofOk THEN
        Revert("submitOrderCount", sender, driver, "InvalidProof")
    ELSE
        LET orderCount == FHEfromExternal(encryptedOrderCount)
        IN  /\ driverOrderCounts' =
                   [driverOrderCounts EXCEPT ![driver] = orderCount]
            /\ acl' = SubmitGrants(acl, orderCount, driver, sender)
            /\ Done("submitOrderCount", sender, driver,
                    <<OrderCountSubmitted(driver, sender, ts)>>)
            /\ UNCHANGED <<driverPerformanceResults, registeredDrivers,
                           registeredDriverList, targetThreshold, owner,
                           paused, cachedDriverCount, cachedThreshold>>

\* the comparison against the default threshold, whatever the current one
IsGoodByDefault(orderCount, threshold) ==
    FHEgt(orderCount, FHEasEuint32(DEFAULT_THRESHOLD))

\* the comparison with greater-or-equal in place of FHE.gt
IsGoodOrEqual(orderCount, threshold) ==
    FHEge(orderCount, FHEasEuint32(threshold))

\* the encrypted comparison of evaluatePerformance
IsGood(orderCount, threshold) == FHEgt(orderCount, FHEasEuint32(threshold))

\* EvaluateGrants granting the result to every caller as well
EvaluateGrantsToAll(ledger, isGood, driver) ==
    ledger \cup {<<isGood, who>> : who \in Callers \cup {This, driver}}

\* the ledger after evaluatePerformance's two grants
EvaluateGrants(ledger, isGood, driver) ==
    FHEallow(FHEallowThis(ledger, isGood), isGood, driver)

\* the event evaluatePerformance emits
EvaluateEvent(driver, isGood, threshold, ts) ==
    PerformanceEvaluated(driver, FHEdecrypt(isGood), threshold, ts)

\* evaluatePerformance without the test for the null address
evaluatePerformanceAnyDriver(sender, driver, ts) ==
    IF ~whenNotPaused THEN
        Revert("evaluatePerformance", sender, driver, "ContractPaused")
    ELSE
        LET orderCount == driverOrderCounts[driver]
            isGood == IsGood(orderCount, targetThreshold)
        IN  /\ driverPerformanceResults' =
                   [driverPerformanceResults EXCEPT ![driver] = isGood]
            /\ acl' = EvaluateGrants(acl, isGood, driver)
            /\ Return("evaluatePerformance",
                      <<EvaluateEvent(driver, isGood, targetThreshold, ts)>>,
                      isGood, FALSE)
            /\ UNCHANGED <<driverOrderCounts, registeredDrivers,
                           registeredDriverList, targetThreshold, owner,
                           paused, cachedDriverCount, cachedThreshold>>

evaluatePerformance(sender, driver, ts) ==
    IF ~whenNotPaused THEN
        Revert("evaluatePerformance", sender, driver, "ContractPaused")
    ELSE IF driver = Null THEN
        Revert("evaluatePerformance", sender, driver, "InvalidAddress")
    ELSE
        LET orderCount == driverOrderCounts[driver]
            isGood == IsGood(orderCount, targetThreshold)
        IN  /\ driverPerformanceResults' =
                   [driverPerformanceResults EXCEPT ![driver] = isGood]
            /\ acl' = EvaluateGrants(acl, isGood, driver)
            /\ Return("evaluatePerformance",
                      <<EvaluateEvent(driver, isGood, targetThreshold, ts)>>,
                      isGood, FALSE)
            /\ UNCHANGED <<driverOrderCounts, registeredDrivers,
                           registeredDriverList, targetThreshold, owner,
                           paused, cachedDriverCount, cachedThreshold>>

----------------------------------------------------------------------------
(* View functions *)

getDriverOrderCount(driver) == driverOrderCounts[driver]

getPerformanceResult(driver) == driverPerformanceResults[driver]

isDriverRegistered(driver) == registeredDrivers[driver]

getRegisteredDriverCount == cachedDriverCount

\* offset and limit are uint256; the sum offset + limit is checked
getRegisteredDrivers(offset, limit) ==
    IF U256Ge(offset, Len(registeredDriverList)) THEN
        [err |-> "OffsetOutOfBounds", ret |-> <<>>]
    ELSE IF U256AddOverflows(offset, limit) THEN
        [err |-> "Panic", ret |-> <<>>]
    ELSE
        LET actualLimit ==
                IF limit.top \/ offset.n + limit.n > Len(registeredDriverList)
                THEN Len(registeredDriverList) - offset.n
                ELSE limit.n
        IN  [err |-> "none",
             ret |-> [i \in 1..actualLimit |->
                         registeredDriverList[offset.n + i]]]

----------------------------------------------------------------------------------------------------------------------------------------------------------------------------------------------------
(* Inputs *)

RECURSIVE SeqsUpTo(_, _)
SeqsUpTo(S, n) ==
    IF n = 0 THEN {<<>>}
    ELSE LET shorter == SeqsUpTo(S, n - 1)
         IN  shorter \cup {Append(q, x) : q \in shorter, x \in S}

\* batches with a repeated entry and with a null entry after a valid one
RepeatBatch == <<"a2", "a2", "a1">>

NullTailBatch == <<"a1", Null>>

\* every batch of at most MaxBatchLen entries, and the two above
BatchInputs ==
    SeqsUpTo(Addresses, MaxBatchLen) \cup {RepeatBatch, NullTailBatch}

\* the budget check at which the remaining gas first reads below GAS_BUFFER;
\* a call makes one check per change, so at most one per driver
LowAfterInputs == 1..Cardinality(Drivers)

\* 2^32 - 1 - 10: takes the default threshold to the maximum and back, and
\* overflows or underflows from anywhere else
BigDelta == U32Sub(MaxUint32, DEFAULT_THRESHOLD).val

----------------------------------------------------------------------------
(* Specification.  One step is one external call; In names the sets the    *)
(* call's caller and arguments are drawn from.                             *)

NextOver(In) ==
    \/ \E sender \in In.callers, driver \in In.drivers, ts \in Timestamps :
           registerDriver(sender, driver, ts)
    \/ \E sender \in In.callers, driver \in In.drivers, ts \in Timestamps :
           deregisterDriver(sender, driver, ts)
    \/ \E sender \in In.callers, drivers \in In.batches,
          lowAfter \in In.lowAfter, ts \in Timestamps :
           batchRegisterDrivers(sender, drivers, ts, lowAfter)
    \/ \E sender \in In.callers, drivers \in In.batches,
          lowAfter \in In.lowAfter, ts \in Timestamps :
           batchDeregisterDrivers(sender, drivers, ts, lowAfter)
    \/ \E sender \in In.callers, t \in In.thresholds, ts \in Timestamps :
           setTargetThreshold(sender, t, ts)
    \/ \E sender \in In.callers, d \in In.deltas, ts \in Timestamps :
           incrementThreshold(sender, d, ts)
    \/ \E sender \in In.callers, d \in In.deltas, ts \in Timestamps :
           decrementThreshold(sender, d, ts)
    \/ \E sender \in In.callers, ts \in Timestamps :
           resetThresholdToDefault(sender, ts)
    \/ \E sender \in In.callers, ts \in Timestamps : pause(sender, ts)
    \/ \E sender \in In.callers, ts \in Timestamps : unpause(sender, ts)
    \/ \E sender \in In.callers, newOwner \in In.newOwners,
          ts \in Timestamps :
           transferOwnership(sender, newOwner, ts)
    \/ \E sender \in In.callers, ts \in Timestamps :
           renounceOwnership(sender, ts)
    \/ \E sender \in In.submitters, driver \in In.subjects,
          ct \in In.ciphertexts, proofOk \in BOOLEAN, ts \in Timestamps :
           submitOrderCount(sender, driver, ct, proofOk, ts)
    \/ \E sender \in In.submitters, driver \in In.subjects,
          ts \in Timestamps :
           evaluatePerformance(sender, driver, ts)

\* every registry and lifecycle input; the confidential store is exercised
\* on one subject with one ciphertext
RegistryInputs ==
    [callers |-> Callers,
     drivers |-> Addresses,
     batches |-> BatchInputs,
     lowAfter |-> LowAfterInputs,
     thresholds |-> {DEFAULT_THRESHOLD},
     deltas |-> {MaxUint32},
     newOwners |-> Addresses,
     submitters |-> {"a1"},
     subjects |-> {"a1", Null},
     ciphertexts |-> {1}]

Next == NextOver(RegistryInputs)

Spec == Init /\ [][Next]_vars

\* every lifecycle and ownership input, and the confidential store and the
\* evaluator on one subject, with the thresholds 5 and 10 around the
\* ciphertext's plaintext 10 and a submitter that is not the subject; the
\* registry holds that one subject
EvaluatorInputs ==
    [callers |-> Callers,
     drivers |-> {"a1"},
     batches |-> {<<"a1">>},
     lowAfter |-> {1},
     thresholds |-> {U32(5)},
     deltas |-> {MaxUint32},
     newOwners |-> Addresses,
     submitters |-> {"a2"},
     subjects |-> {"a1", Null},
     ciphertexts |-> {1}]

NextEval == NextOver(EvaluatorInputs)

SpecEval == Init /\ [][NextEval]_vars

----------------------------------------------------------------------------
(* Registry invariants *)

\* C1: for every address s, isDriverRegistered(s) is true if and only if s
\* occurs in the backing list registeredDriverList.
RegisteredIffListed ==
    \A s \in Addresses :
        isDriverRegistered(s) <=> s \in Range(registeredDriverList)

\* a batch deregistration has removed one of two listed subjects
RegisteredIffListedWitness ==
    /\ call.op = "batchDeregisterDrivers"
    /\ Succeeded
    /\ Len(events) = 2
    /\ Len(registeredDriverList) = 1
    /\ isDriverRegistered(registeredDriverList[1])

\* C2: after every completed call the cached count returned by
\* getRegisteredDriverCount() equals the length of registeredDriverList,
\* also after a batch that stopped early and a batch that changed nothing.
CachedCountIsLength == getRegisteredDriverCount = Len(registeredDriverList)

\* a batch registration left through the low-gas break after one entry
CachedCountIsLengthWitness ==
    /\ call.op = "batchRegisterDrivers"
    /\ Succeeded
    /\ call.early
    /\ getRegisteredDriverCount = 1

\* C3: registeredDriverList contains no address twice and never contains
\* the null address.
ListHasNoDuplicates ==
    /\ \A i, j \in 1..Len(registeredDriverList) :
           i # j => registeredDriverList[i] # registeredDriverList[j]
    /\ Null \notin Range(registeredDriverList)

\* a batch whose input repeats an address has registered two subjects
ListHasNoDuplicatesWitness ==
    /\ call.op = "batchRegisterDrivers"
    /\ Succeeded
    /\ Len(events) = 3
    /\ registeredDriverList = <<"a2", "a1">>

----------------------------------------------------------------------------
(* Confidentiality of the audit events *)

\* C4: the event emitted by evaluatePerformance carries only the subject
\* identity and a timestamp, and is the same whatever confidential value is
\* stored for the subject.
EvaluationEventHidesOutcome ==
    (call.op = "evaluatePerformance" /\ Succeeded) =>
        /\ DOMAIN events[1] = {"kind", "driver", "timestamp"}
        /\ \A k \in Ciphertexts :
               events[1] =
                   EvaluateEvent(events[1].driver,
                                 IsGood(FHEfromExternal(k), targetThreshold),
                                 targetThreshold, events[1].timestamp)

----------------------------------------------------------------------------
(* Confidential value store and evaluator *)

\* the last call deregistered s, singly or as a processed batch entry
JustDeregistered(s) ==
    /\ call.op \in {"deregisterDriver", "batchDeregisterDrivers"}
    /\ Succeeded
    /\ \E i \in 1..Len(events) :
           events[i].kind = "DriverDeregistered" /\ events[i].driver = s

\* C5: immediately after a subject s is deregistered, by deregisterDriver or
\* as an entry of batchDeregisterDrivers, getDriverOrderCount(s) and
\* getPerformanceResult(s) return the unset handle; and when registerDriver(s)
\* follows the deregistration, getDriverOrderCount(s) still returns unset.
DeregisterClears ==
    [][\A s \in Drivers :
          /\ (registeredDrivers[s] /\ ~registeredDrivers'[s]) =>
                 /\ getDriverOrderCount(s)' = Unset
                 /\ getPerformanceResult(s)' = Unset
          /\ (JustDeregistered(s) /\ call'.op = "registerDriver"
                  /\ ~registeredDrivers[s] /\ registeredDrivers'[s]) =>
                 getDriverOrderCount(s)' = Unset]_vars

\* a subject that a value was once submitted for is registered again by
\* registerDriver and reads unset
DeregisterClearsWitness ==
    /\ call.op = "registerDriver"
    /\ Succeeded
    /\ isDriverRegistered("a1")
    /\ <<FHEfromExternal(1), "a1">> \in acl
    /\ getDriverOrderCount("a1") = Unset

GatedByPause == {"submitOrderCount", "evaluatePerformance"}

\* C7: while paused, every call of submitOrderCount and evaluatePerformance
\* fails with the Paused error and leaves stored values, stored results, the
\* grant ledger and the event log unchanged; when not paused (after an
\* unpause) these calls are no longer rejected as paused.
PausedBlocksConfidentialCalls ==
    [][call'.op \in GatedByPause =>
          IF paused
          THEN /\ call'.err = "ContractPaused"
               /\ events' = <<>>
               /\ UNCHANGED <<driverOrderCounts, driverPerformanceResults,
                              acl>>
          ELSE call'.err # "ContractPaused"]_vars

\* a submission was rejected while paused
PausedBlocksConfidentialCallsWitness ==
    /\ paused
    /\ call.op = "submitOrderCount"
    /\ call.err = "ContractPaused"

----------------------------------------------------------------------------
(* Lifecycle and ownership *)

\* C8: the lifecycle starts Active; paused changes only by a successful
\* pause() (Active to Paused) or unpause() (Paused to Active); pause() by the
\* owner while Paused fails with the paused error, unpause() by the owner
\* while Active fails with NotPaused, and both leave paused unchanged.
LifecycleMachine ==
    /\ ~paused
    /\ [][/\ (paused' # paused) =>
                 /\ call'.err = "none"
                 /\ \/ call'.op = "pause" /\ ~paused /\ paused'
                    \/ call'.op = "unpause" /\ paused /\ ~paused'
          /\ \A c \in Callers, ts \in Timestamps :
                 (c = owner /\ paused /\ pause(c, ts)) =>
                     (call'.err = "ContractPaused" /\ paused' = paused)
          /\ \A c \in Callers, ts \in Timestamps :
                 (c = owner /\ ~paused /\ unpause(c, ts)) =>
                     (call'.err = "ContractNotPaused" /\ paused' = paused)]_vars

\* the owner's pause() was rejected because the contract is already paused
LifecycleMachineWitness ==
    /\ paused
    /\ call.op = "pause"
    /\ call.err = "ContractPaused"

\* C9: transferOwnership(newOwner) by any caller other than the current
\* owner fails with Unauthorized and leaves owner and all other state
\* unchanged, for every newOwner.
TransferNeedsOwner ==
    [][\A c \in Callers, newOwner \in Addresses, ts \in Timestamps :
          (c # owner /\ transferOwnership(c, newOwner, ts)) =>
              /\ call'.err = "UnauthorizedAccess"
              /\ events' = <<>>
              /\ UNCHANGED storage]_vars

\* a transfer was rejected while the contract had an owner
TransferNeedsOwnerWitness ==
    /\ call.op = "transferOwnership"
    /\ call.err = "UnauthorizedAccess"
    /\ owner \in Callers

OwnerGated ==
    {"batchRegisterDrivers", "setTargetThreshold", "pause", "unpause",
     "transferOwnership", "renounceOwnership"}

\* C10: once renounceOwnership() succeeds owner is the null identifier in
\* every later state, every later call of an owner-gated operation fails,
\* and a contract renounced while Paused stays Paused.
RenounceIsFinal ==
    [][/\ (call'.op = "renounceOwnership" /\ call'.err = "none") =>
              owner' = Null
       /\ owner = Null =>
              /\ owner' = Null
              /\ paused' = paused
              /\ call'.op \in OwnerGated =>
                     call'.err = "UnauthorizedAccess"]_vars

\* unpause() was rejected after ownership was renounced while paused
RenounceIsFinalWitness ==
    /\ owner = Null
    /\ paused
    /\ call.op = "unpause"
    /\ call.err = "UnauthorizedAccess"

----------------------------------------------------------------------------
(* Registration errors *)

\* C11: registerDriver(s) on an already registered s fails with
\* DriverAlreadyRegistered and registerDriver(null) fails with
\* InvalidAddress; either failure leaves the registration map, the list, the
\* cached count and every other state component unchanged and logs nothing.
RegisterRejects ==
    [][\A c \in Callers, s \in Addresses, ts \in Timestamps :
          /\ (s # Null /\ registeredDrivers[s] /\ registerDriver(c, s, ts)) =>
                 /\ call'.err = "DriverAlreadyRegistered"
                 /\ events' = <<>>
                 /\ UNCHANGED storage
          /\ (s = Null /\ registerDriver(c, s, ts)) =>
                 /\ call'.err = "InvalidAddress"
                 /\ events' = <<>>
                 /\ UNCHANGED storage]_vars

\* a second registration of a listed driver was rejected
RegisterRejectsWitness ==
    /\ call.op = "registerDriver"
    /\ call.err = "DriverAlreadyRegistered"
    /\ Len(registeredDriverList) > 0

----------------------------------------------------------------------------
(* Batch size limits *)

\* a batch of exactly MAX_BATCH_SIZE entries, and one entry more
FullBatch == [i \in 1..MAX_BATCH_SIZE |-> IF i % 2 = 1 THEN "a1" ELSE "a2"]

OversizeBatch == Append(FullBatch, "a1")

\* the empty batch and the batches around MAX_BATCH_SIZE, on a registry
\* filled and emptied by the batch calls and by single calls on one driver
SizeInputs ==
    [callers |-> Callers,
     drivers |-> {"a2"},
     batches |-> {<<>>, FullBatch, OversizeBatch},
     lowAfter |-> {1, MAX_BATCH_SIZE + 1},
     thresholds |-> {DEFAULT_THRESHOLD},
     deltas |-> {MaxUint32},
     newOwners |-> {Null},
     submitters |-> {"a1"},
     subjects |-> {"a1"},
     ciphertexts |-> {1}]

NextSize == NextOver(SizeInputs)

SpecSize == Init /\ [][NextSize]_vars

\* the outcome of the two size checks on a batch
SizeChecked(drivers) ==
    /\ Len(drivers) = 0 =>
           /\ call'.err = "EmptyDriverList"
           /\ events' = <<>>
           /\ UNCHANGED storage
    /\ Len(drivers) > MAX_BATCH_SIZE =>
           /\ call'.err = "BatchSizeTooLarge"
           /\ events' = <<>>
           /\ UNCHANGED storage
    /\ Len(drivers) \in 1..MAX_BATCH_SIZE =>
           call'.err \notin {"EmptyDriverList", "BatchSizeTooLarge"}

\* C12: batchRegisterDrivers by the owner fails with EmptyDriverList on an
\* empty input and with BatchSizeTooLarge on an input longer than
\* MAX_BATCH_SIZE, leaving all state unchanged, and is not rejected on exactly
\* MAX_BATCH_SIZE entries; batchDeregisterDrivers applies the same two checks
\* for every caller.
BatchSizeChecks ==
    [][\A c \in Callers, drivers \in SizeInputs.batches,
          lowAfter \in SizeInputs.lowAfter, ts \in Timestamps :
          /\ (/\ call'.op = "batchRegisterDrivers"
              /\ c = owner
              /\ batchRegisterDrivers(c, drivers, ts, lowAfter)) =>
                 SizeChecked(drivers)
          /\ (/\ call'.op = "batchDeregisterDrivers"
              /\ batchDeregisterDrivers(c, drivers, ts, lowAfter)) =>
                 SizeChecked(drivers)]_vars

\* a batch of exactly MAX_BATCH_SIZE entries was processed to its end
BatchSizeChecksWitness ==
    /\ call.op = "batchDeregisterDrivers"
    /\ Succeeded
    /\ ~call.early
    /\ Len(events) = 3
    /\ events[3].count = 2

----------------------------------------------------------------------------
(* Swap-remove *)

\* a batch with a null entry and a repeated entry ahead of its last driver
SkipBatch == <<"a1", Null, "a1", ThirdDriver>>

\* single registrations and deregistrations of three drivers and of the null
\* address, by the deployer, with a confidential value and a result stored
\* for the second driver
ListInputs ==
    [callers |-> {Deployer},
     drivers |-> AddressSpace,
     batches |-> {<<ThirdDriver>>, SkipBatch},
     lowAfter |-> {1, Len(SkipBatch)},
     thresholds |-> {DEFAULT_THRESHOLD},
     deltas |-> {MaxUint32},
     newOwners |-> {Null},
     submitters |-> {Deployer},
     subjects |-> {"a2"},
     ciphertexts |-> {1}]

NextList == NextOver(ListInputs)

SpecList == Init /\ [][NextList]_vars

\* C13: a successful deregisterDriver(s) with s at index i of a list of
\* length n leaves a list of length n - 1 in which index i holds the former
\* last element (when i was not the last index) and every other remaining
\* index holds what it held; the count is n - 1; no driver other than s
\* loses its registration, value or result.
DeregisterSwapsWithLast ==
    [][\A c \in ListInputs.callers, s \in ListInputs.drivers,
          ts \in Timestamps :
          (/\ call'.op = "deregisterDriver"
           /\ registeredDrivers[s]
           /\ deregisterDriver(c, s, ts)) =>
              LET n == Len(registeredDriverList)
              IN  /\ call'.err = "none"
                  /\ Len(registeredDriverList') = n - 1
                  /\ getRegisteredDriverCount' = n - 1
                  /\ \A i \in 1..n :
                         registeredDriverList[i] = s =>
                             /\ i < n => registeredDriverList'[i] =
                                             registeredDriverList[n]
                             /\ \A j \in 1..(n - 1) :
                                    j # i => registeredDriverList'[j] =
                                                 registeredDriverList[j]
                  /\ \A d \in AddressSpace \ {s} :
                         /\ registeredDrivers'[d] = registeredDrivers[d]
                         /\ driverOrderCounts'[d] = driverOrderCounts[d]
                         /\ driverPerformanceResults'[d] =
                                driverPerformanceResults[d]]_vars

\* the first of three listed drivers was deregistered: the last one took its
\* place ahead of the second, whose value and result are still stored
DeregisterSwapsWithLastWitness ==
    /\ call.op = "deregisterDriver"
    /\ Succeeded
    /\ events[1].driver = "a1"
    /\ registeredDriverList = <<ThirdDriver, "a2">>
    /\ FHEisInitialized(getDriverOrderCount("a2"))
    /\ FHEisInitialized(getPerformanceResult("a2"))

----------------------------------------------------------------------------
(* Pagination *)

\* offsets inside, at and beyond the list, and limits from zero to 2^256 - 1
PageOffsets == {U256(0), U256(1), U256(2), U256(3), U256FromMax(0)}

PageLimits == {U256(0), U256(1), U256(2), U256(10), U256FromMax(1), U256FromMax(0)}

\* min(limit, n) for a small n
U256Min(limit, n) == IF limit.top \/ limit.n > n THEN n ELSE limit.n

\* C14: getRegisteredDrivers(offset, limit) fails with OffsetOutOfBounds when
\* offset >= count(), and for every offset < count() and every uint256 limit
\* it succeeds and returns the min(limit, count() - offset) list elements
\* from index offset on, in list order.
PageIsTotalBelowCount ==
    \A offset \in PageOffsets, limit \in PageLimits :
        LET r == getRegisteredDrivers(offset, limit)
            count == getRegisteredDriverCount
        IN  IF U256Ge(offset, count)
            THEN r.err = "OffsetOutOfBounds"
            ELSE /\ r.err = "none"
                 /\ r.ret = [i \in 1..U256Min(limit, count - offset.n) |->
                                registeredDriverList[offset.n + i]]

----------------------------------------------------------------------------
(* Batch registration *)

\* C15: a batchRegisterDrivers call by the owner whose input holds the null
\* address fails as a whole with the invalid-driver error: the registration
\* map, the list, the cached count and all other storage are as before the
\* call, including for valid entries ahead of the null one, and nothing is
\* logged.
BatchRegisterNullIsHardStop ==
    [][\A c \in Callers, drivers \in BatchInputs, lowAfter \in LowAfterInputs,
          ts \in Timestamps :
          (/\ call'.op = "batchRegisterDrivers"
           /\ c = owner
           /\ Null \in Range(drivers)
           /\ batchRegisterDrivers(c, drivers, ts, lowAfter)) =>
              /\ call'.err = "Invalid driver address"
              /\ events' = <<>>
              /\ UNCHANGED storage]_vars


RECURSIVE FirstNew(_, _)
\* the entries of drivers that are not registered in reg, each once, in
\* input order
FirstNew(drivers, reg) ==
    IF drivers = <<>> THEN <<>>
    ELSE IF reg[Head(drivers)] THEN FirstNew(Tail(drivers), reg)
    ELSE <<Head(drivers)>>
             \o FirstNew(Tail(drivers), [reg EXCEPT ![Head(drivers)] = TRUE])

\* C16: every successful batchRegisterDrivers call registers exactly the not
\* yet registered entries of some prefix of its input, appended to the list
\* in input order, skipping registered and repeated entries, and sets the
\* cached count to the list length; the prefix is the whole input when the
\* gas never reads below GAS_BUFFER, and a loop stopped early keeps what it
\* processed and the call succeeds.
BatchRegisterCommitsPrefix ==
    [][\A c \in Callers, drivers \in SizeInputs.batches,
          lowAfter \in SizeInputs.lowAfter, ts \in Timestamps :
          (/\ call'.op = "batchRegisterDrivers"
           /\ batchRegisterDrivers(c, drivers, ts, lowAfter)) =>
              /\ call'.early => call'.err = "none"
              /\ call'.err = "none" =>
                     \E k \in 0..Len(drivers) :
                         LET new == FirstNew(SubSeq(drivers, 1, k),
                                             registeredDrivers)
                         IN  /\ registeredDriverList' =
                                    registeredDriverList \o new
                             /\ registeredDrivers' =
                                    [d \in AddressSpace |->
                                        registeredDrivers[d]
                                            \/ d \in Range(new)]
                             /\ getRegisteredDriverCount' =
                                    Len(registeredDriverList')
                             /\ call'.early => Len(new) > 0
                             /\ (\/ ~call'.early
                                 \/ lowAfter > Len(FirstNew(drivers,
                                                   registeredDrivers))) =>
                                    k = Len(drivers)]_vars

\* a batch call stopped by the gas check succeeded with one driver kept
BatchRegisterCommitsPrefixWitness ==
    /\ call.op = "batchRegisterDrivers"
    /\ Succeeded
    /\ call.early
    /\ Len(events) = 2
    /\ events[2].count = 1
    /\ registeredDrivers["a1"]
    /\ ~registeredDrivers["a2"]

----------------------------------------------------------------------------
(* Access grants *)

\* the ledger holds handle h for the contract itself and for driver s
GrantedToThisAnd(ledger, h, s) == {<<h, This>>, <<h, s>>} \subseteq ledger

\* C17: in every reachable state the ledger holds every set value handle and
\* every set result handle for the contract itself and for its driver; a
\* successful submitOrderCount leaves its handle granted to the contract, the
\* driver and the submitting caller in the state it writes the handle in, and
\* no call takes a grant away.
HandlesAreGranted ==
    /\ [](\A s \in AddressSpace :
             /\ FHEisInitialized(getDriverOrderCount(s)) =>
                    GrantedToThisAnd(acl, getDriverOrderCount(s), s)
             /\ FHEisInitialized(getPerformanceResult(s)) =>
                    GrantedToThisAnd(acl, getPerformanceResult(s), s))
    /\ [][/\ acl \subseteq acl'
          /\ \A c \in Callers, s \in Drivers, ct \in Ciphertexts,
                ts \in Timestamps :
                 (/\ call'.op = "submitOrderCount"
                  /\ call'.err = "none"
                  /\ submitOrderCount(c, s, ct, TRUE, ts)) =>
                     /\ FHEisInitialized(driverOrderCounts'[s])
                     /\ GrantedToThisAnd(acl', driverOrderCounts'[s], s)
                     /\ <<driverOrderCounts'[s], c>> \in acl']_vars

\* a value submitted by another caller and its result are stored for a driver
HandlesAreGrantedWitness ==
    /\ FHEisInitialized(getDriverOrderCount("a1"))
    /\ FHEisInitialized(getPerformanceResult("a1"))
    /\ <<getDriverOrderCount("a1"), "a2">> \in acl
    /\ <<getPerformanceResult("a1"), "a1">> \in acl

\* C18: a successful evaluatePerformance(s) by a caller c other than s adds
\* to the ledger only the grants of the result handle to the contract itself
\* and to s; the ledger gains no entry for c on that handle.
EvaluateGrantsOnlySubject ==
    [][\A c \in Callers, s \in Drivers, ts \in Timestamps :
          (/\ call'.op = "evaluatePerformance"
           /\ call'.err = "none"
           /\ c # s
           /\ evaluatePerformance(c, s, ts)) =>
              LET isGood == driverPerformanceResults'[s]
              IN  /\ isGood = call'.ret
                  /\ GrantedToThisAnd(acl', isGood, s)
                  /\ acl' \ acl \subseteq {<<isGood, This>>, <<isGood, s>>}
                  /\ <<isGood, c>> \notin acl' \ acl]_vars

\* another caller evaluated a driver and holds no grant on the result
EvaluateGrantsOnlySubjectWitness ==
    /\ call.op = "evaluatePerformance"
    /\ Succeeded
    /\ call.ret = getPerformanceResult("a1")
    /\ <<call.ret, "a1">> \in acl
    /\ <<call.ret, "a2">> \notin acl
    /\ FHEisInitialized(getDriverOrderCount("a1"))

----------------------------------------------------------------------------
(* Registry calls and the pause flag *)

\* C19: registerDriver, deregisterDriver and batchDeregisterDrivers have the
\* same outcome and the same effect on registry, list, count, values and
\* results whether paused is true or false: whether they fail, and with
\* what, depends on the arguments and the registry alone, a success of each
\* changes the registry as its arguments say, and paused is left as it is.
RegistryIgnoresPause ==
    [][\A c \in ListInputs.callers, ts \in Timestamps :
          /\ \A s \in ListInputs.drivers :
                 (/\ call'.op = "registerDriver"
                  /\ registerDriver(c, s, ts)) =>
                     /\ paused' = paused
                     /\ call'.err =
                            IF s = Null THEN "InvalidAddress"
                            ELSE IF registeredDrivers[s]
                                 THEN "DriverAlreadyRegistered"
                                 ELSE "none"
                     /\ call'.err = "none" =>
                            /\ registeredDrivers' =
                                   [registeredDrivers EXCEPT ![s] = TRUE]
                            /\ registeredDriverList' =
                                   Append(registeredDriverList, s)
                            /\ getRegisteredDriverCount' =
                                   Len(registeredDriverList) + 1
                            /\ UNCHANGED <<driverOrderCounts,
                                           driverPerformanceResults>>
          /\ \A s \in ListInputs.drivers :
                 (/\ call'.op = "deregisterDriver"
                  /\ deregisterDriver(c, s, ts)) =>
                     /\ paused' = paused
                     /\ call'.err =
                            IF s = Null THEN "InvalidAddress"
                            ELSE IF ~registeredDrivers[s]
                                 THEN "UnauthorizedAccess"
                                 ELSE "none"
                     /\ call'.err = "none" =>
                            /\ registeredDrivers' =
                                   [registeredDrivers EXCEPT ![s] = FALSE]
                            /\ Range(registeredDriverList') =
                                   Range(registeredDriverList) \ {s}
                            /\ getRegisteredDriverCount' =
                                   Len(registeredDriverList) - 1
                            /\ driverOrderCounts' =
                                   [driverOrderCounts EXCEPT ![s] = Unset]
                            /\ driverPerformanceResults' =
                                   [driverPerformanceResults
                                       EXCEPT ![s] = Unset]
          /\ \A drivers \in ListInputs.batches,
                lowAfter \in ListInputs.lowAfter :
                 (/\ call'.op = "batchDeregisterDrivers"
                  /\ batchDeregisterDrivers(c, drivers, ts, lowAfter)) =>
                     /\ paused' = paused
                     /\ call'.err =
                            IF Len(drivers) = 0 THEN "EmptyDriverList"
                            ELSE "none"
                     /\ call'.err = "none" =>
                            \E k \in 0..Len(drivers) :
                                LET gone == {d \in Range(SubSeq(drivers, 1, k)) :
                                                d # Null /\ registeredDrivers[d]}
                                IN  /\ ~call'.early => k = Len(drivers)
                                    /\ registeredDrivers' =
                                           [d \in AddressSpace |->
                                               registeredDrivers[d]
                                                   /\ d \notin gone]
                                    /\ Range(registeredDriverList') =
                                           Range(registeredDriverList) \ gone
                                    /\ getRegisteredDriverCount' =
                                           Len(registeredDriverList)
                                               - Cardinality(gone)
                                    /\ driverOrderCounts' =
                                           [d \in AddressSpace |->
                                               IF d \in gone THEN Unset
                                               ELSE driverOrderCounts[d]]
                                    /\ driverPerformanceResults' =
                                           [d \in AddressSpace |->
                                               IF d \in gone THEN Unset
                                               ELSE driverPerformanceResults[d]]]_vars

\* a driver was deregistered while the contract was paused
RegistryIgnoresPauseWitness ==
    /\ paused
    /\ call.op = "deregisterDriver"
    /\ Succeeded
    /\ Len(registeredDriverList) = 1
    /\ \E e \in Range(events) : e.driver = "a1"

----------------------------------------------------------------------------
(* Unset values *)

\* C20: the unset state of a driver's value is never treated as zero: no
\* call stores for a driver a result computed from that driver's value while
\* the value is unset (never submitted, or cleared by a deregistration).
UnsetValueIsNeverEvaluated ==
    [][\A c \in Callers, s \in Drivers, ts \in Timestamps :
          (/\ call'.op = "evaluatePerformance"
           /\ ~FHEisInitialized(getDriverOrderCount(s))
           /\ evaluatePerformance(c, s, ts)) =>
              /\ call'.err # "none"
              /\ driverPerformanceResults'[s] = driverPerformanceResults[s]]_vars

----------------------------------------------------------------------------
(* Batch reports *)

BatchOps == {"batchRegisterDrivers", "batchDeregisterDrivers"}

\* C21: every successful batchRegisterDrivers and batchDeregisterDrivers
\* call, one that stops early and one that skips every entry included, logs a
\* BatchOperationCompleted event whose count is the number of drivers the
\* call registered or deregistered.
BatchReportsCount ==
    (call.op \in BatchOps /\ Succeeded) =>
        /\ Len(events) > 0
        /\ events[Len(events)].kind = "BatchOperationCompleted"
        /\ events[Len(events)].count = Len(events) - 1

----------------------------------------------------------------------------
(* Deregistration errors *)

\* C22 as stated: deregisterDriver(s) fails with UnauthorizedAccess for every
\* s that is not registered, the null address included, and changes no state.
DeregisterUnregisteredIsUnauthorized ==
    [][\A c \in Callers, s \in Addresses, ts \in Timestamps :
          (/\ call'.op = "deregisterDriver"
           /\ ~registeredDrivers[s]
           /\ deregisterDriver(c, s, ts)) =>
              /\ call'.err = "UnauthorizedAccess"
              /\ events' = <<>>
              /\ UNCHANGED storage]_vars

\* C22, amended: deregisterDriver(s) fails for every s that is not
\* registered and changes no state; the error is UnauthorizedAccess for a
\* driver never registered or already deregistered and InvalidAddress for the
\* null address.  A deregistration right after a successful one of the same
\* driver fails.
DeregisterUnregisteredFails ==
    [][\A c \in Callers, s \in Addresses, ts \in Timestamps :
          (/\ call'.op = "deregisterDriver"
           /\ ~registeredDrivers[s]
           /\ deregisterDriver(c, s, ts)) =>
              /\ call'.err = IF s = Null THEN "InvalidAddress"
                             ELSE "UnauthorizedAccess"
              /\ events' = <<>>
              /\ UNCHANGED storage
              /\ (call.op = "deregisterDriver" /\ Succeeded
                  /\ s = events[1].driver) =>
                     call'.err = "UnauthorizedAccess"]_vars

\* a deregistration of a driver that is not registered was rejected after
\* another driver had been registered
DeregisterUnregisteredFailsWitness ==
    /\ call.op = "deregisterDriver"
    /\ call.err = "UnauthorizedAccess"
    /\ Len(registeredDriverList) = 1

----------------------------------------------------------------------------
(* Batch deregistration *)

\* C23: batchDeregisterDrivers on an input of 1 to MAX_BATCH_SIZE entries
\* never fails because of null, unregistered or repeated entries; when the
\* gas never reads below GAS_BUFFER, after the call no entry of the input is
\* registered, every driver registered before and absent from the input is
\* still registered with its value and result unchanged, and the list holds
\* exactly the drivers still registered, each once.
BatchDeregisterSkips ==
    [][\A c \in ListInputs.callers, drivers \in ListInputs.batches,
          lowAfter \in ListInputs.lowAfter, ts \in Timestamps :
          (/\ call'.op = "batchDeregisterDrivers"
           /\ Len(drivers) \in 1..MAX_BATCH_SIZE
           /\ batchDeregisterDrivers(c, drivers, ts, lowAfter)) =>
              LET listed == {d \in Range(drivers) :
                                d # Null /\ registeredDrivers[d]}
              IN  /\ call'.err = "none"
                  /\ lowAfter > Cardinality(listed) =>
                         /\ \A d \in Range(drivers) : ~registeredDrivers'[d]
                         /\ \A d \in AddressSpace \ Range(drivers) :
                                registeredDrivers[d] =>
                                    /\ registeredDrivers'[d]
                                    /\ driverOrderCounts'[d] =
                                           driverOrderCounts[d]
                                    /\ driverPerformanceResults'[d] =
                                           driverPerformanceResults[d]
                         /\ Range(registeredDriverList') =
                                {d \in AddressSpace : registeredDrivers'[d]}
                         /\ Len(registeredDriverList') =
                                Cardinality(Range(registeredDriverList'))]_vars

\* a batch deregistered two drivers around a null and a repeated entry and
\* left the third, with its value and result, listed
BatchDeregisterSkipsWitness ==
    /\ call.op = "batchDeregisterDrivers"
    /\ Succeeded
    /\ ~call.early
    /\ Len(events) = 3
    /\ events[3].count = 2
    /\ registeredDriverList = <<"a2">>
    /\ FHEisInitialized(getDriverOrderCount("a2"))
    /\ FHEisInitialized(getPerformanceResult("a2"))

----------------------------------------------------------------------------
(* Audit events *)

\* the kinds of event a call of op emits
KindsOf(op) ==
    CASE op = "registerDriver" -> {"DriverRegistered"}
      [] op = "deregisterDriver" -> {"DriverDeregistered"}
      [] op = "batchRegisterDrivers" ->
             {"DriverRegistered", "BatchOperationCompleted"}
      [] op = "batchDeregisterDrivers" ->
             {"DriverDeregistered", "BatchOperationCompleted"}
      [] op = "submitOrderCount" -> {"OrderCountSubmitted"}
      [] op = "evaluatePerformance" -> {"PerformanceEvaluated"}
      [] op \in {"setTargetThreshold", "incrementThreshold",
                 "decrementThreshold", "resetThresholdToDefault"} ->
             {"TargetThresholdUpdated"}
      [] op = "pause" -> {"ContractPaused"}
      [] op = "unpause" -> {"ContractUnpaused"}
      [] op \in {"transferOwnership", "renounceOwnership"} ->
             {"OwnershipTransferred"}
      [] OTHER -> {}

\* the event has a field for the caller (for an ownership change the caller
\* is the previous owner)
NamesCaller(e) == "actor" \in DOMAIN e \/ "previousOwner" \in DOMAIN e

\* a failed call logs nothing; a successful call that changes storage logs at
\* least one event, and every event of a call is of a kind of its function
LogsEveryChange ==
    /\ call'.err # "none" => events' = <<>>
    /\ (call'.err = "none" /\ storage' # storage) => events' # <<>>
    /\ \A e \in Range(events') : e.kind \in KindsOf(call'.op)

\* the events of registerDriver, deregisterDriver and submitOrderCount by c
\* name the driver and c; the event of evaluatePerformance names the driver
NamesDriverAndCaller ==
    \A c \in Callers, s \in Drivers, ts \in Timestamps :
        /\ (/\ call'.op = "registerDriver"
            /\ call'.err = "none"
            /\ registerDriver(c, s, ts)) =>
               (events'[1].driver = s /\ events'[1].actor = c)
        /\ (/\ call'.op = "deregisterDriver"
            /\ call'.err = "none"
            /\ deregisterDriver(c, s, ts)) =>
               (events'[1].driver = s /\ events'[1].actor = c)
        /\ \A ct \in Ciphertexts :
               (/\ call'.op = "submitOrderCount"
                /\ call'.err = "none"
                /\ submitOrderCount(c, s, ct, TRUE, ts)) =>
                   (events'[1].driver = s /\ events'[1].actor = c)
        /\ (/\ call'.op = "evaluatePerformance"
            /\ call'.err = "none"
            /\ evaluatePerformance(c, s, ts)) =>
               events'[1].driver = s

\* C24 as stated: every successful call that changes state logs at least one
\* event naming the operation kind, the driver concerned and the acting
\* caller, and failed calls log nothing.
EveryEventNamesCaller ==
    [][/\ LogsEveryChange
       /\ NamesDriverAndCaller
       /\ \A e \in Range(events') : NamesCaller(e)]_vars

\* C24, amended: every successful call that changes state logs at least one
\* event of the kind of its operation, naming the driver concerned where
\* there is one, and failed calls log nothing; the event names the acting
\* caller for every operation but evaluatePerformance, whose event names the
\* driver and no caller.
EveryChangeIsLogged ==
    [][/\ LogsEveryChange
       /\ NamesDriverAndCaller
       /\ \A e \in Range(events') :
              NamesCaller(e) <=> e.kind # "PerformanceEvaluated"]_vars

\* a caller other than the driver submitted a value and is named by the event
EveryChangeIsLoggedWitness ==
    /\ call.op = "submitOrderCount"
    /\ Succeeded
    /\ events[1].driver = "a1"
    /\ events[1].actor = "a2"

----------------------------------------------------------------------------
(* Stored values and results *)

\* two ciphertexts submitted for one driver by another caller, next to
\* single registrations of both drivers
StoreInputs ==
    [callers |-> {Deployer},
     drivers |-> Drivers,
     batches |-> {<<"a2">>},
     lowAfter |-> {1},
     thresholds |-> {DEFAULT_THRESHOLD},
     deltas |-> {MaxUint32},
     newOwners |-> {Null},
     submitters |-> {"a2"},
     subjects |-> {"a1"},
     ciphertexts |-> Ciphertexts]

NextStore == NextOver(StoreInputs)

SpecStore == Init /\ [][NextStore]_vars


\* C25: when FHE.fromExternal rejects the ciphertext and proof,
\* submitOrderCount fails with the coprocessor's error and the stored value,
\* the grant ledger and the event log are unchanged; when the import
\* succeeds the new handle replaces the driver's prior value.
SubmitImportsOrFails ==
    [][\A c \in StoreInputs.submitters, s \in StoreInputs.subjects,
          ct \in StoreInputs.ciphertexts, ts \in Timestamps :
          /\ (/\ call'.op = "submitOrderCount"
              /\ ~paused
              /\ submitOrderCount(c, s, ct, FALSE, ts)) =>
                 /\ call'.err = "InvalidProof"
                 /\ events' = <<>>
                 /\ UNCHANGED storage
          /\ (/\ call'.op = "submitOrderCount"
              /\ ~paused
              /\ submitOrderCount(c, s, ct, TRUE, ts)) =>
                 /\ call'.err = "none"
                 /\ FHEisInitialized(driverOrderCounts'[s])
                 /\ Plain(driverOrderCounts'[s]) = CtPlain(ct)
                 /\ \A d \in AddressSpace \ {s} :
                        driverOrderCounts'[d] = driverOrderCounts[d]]_vars

\* the second ciphertext is stored for a driver who had the first one before
SubmitImportsOrFailsWitness ==
    /\ call.op = "submitOrderCount"
    /\ Succeeded
    /\ getDriverOrderCount("a1") = FHEfromExternal(2)
    /\ <<FHEfromExternal(1), "a1">> \in acl


\* C26: a successful registerDriver(s) changes the registration flag of s,
\* appends s to the list and sets the cached count, and nothing else: every
\* stored value and result, those under s included, the grant ledger,
\* targetThreshold, owner and paused are unchanged.
RegisterFrame ==
    [][\A c \in StoreInputs.callers, s \in StoreInputs.drivers,
          ts \in Timestamps :
          (/\ call'.op = "registerDriver"
           /\ call'.err = "none"
           /\ registerDriver(c, s, ts)) =>
              /\ registeredDrivers' = [registeredDrivers EXCEPT ![s] = TRUE]
              /\ registeredDriverList' = Append(registeredDriverList, s)
              /\ cachedDriverCount' = Len(registeredDriverList')
              /\ UNCHANGED <<driverOrderCounts, driverPerformanceResults,
                             acl, targetThreshold, cachedThreshold, owner,
                             paused>>]_vars

\* a driver was registered while a value and a result were stored under it
RegisterFrameWitness ==
    /\ call.op = "registerDriver"
    /\ Succeeded
    /\ events[1].driver = "a1"
    /\ FHEisInitialized(getDriverOrderCount("a1"))
    /\ FHEisInitialized(getPerformanceResult("a1"))


\* one ciphertext stored and evaluated for one driver under the thresholds 5
\* and 10, next to single registrations of both drivers
ResultInputs ==
    [callers |-> {Deployer},
     drivers |-> Drivers,
     batches |-> {<<"a2">>, <<"a1">>},
     lowAfter |-> {1},
     thresholds |-> {U32(5)},
     deltas |-> {MaxUint32},
     newOwners |-> {Null},
     submitters |-> {"a2"},
     subjects |-> {"a1"},
     ciphertexts |-> {1}]

NextResult == NextOver(ResultInputs)

SpecResult == Init /\ [][NextResult]_vars

DeregisterOps == {"deregisterDriver", "batchDeregisterDrivers"}

\* C27: a driver's stored result changes only through a successful
\* evaluatePerformance of that driver, which stores the comparison of the
\* value and the threshold of that moment, or through a deregistration of
\* that driver, which clears it; evaluatePerformance can be repeated without
\* end, and submitOrderCount, threshold changes, pause, unpause and calls on
\* other drivers leave the result as it is.
ResultChangesByEvaluation ==
    [][/\ \A s \in AddressSpace :
              driverPerformanceResults'[s] # driverPerformanceResults[s] =>
                  \/ /\ call'.op = "evaluatePerformance"
                     /\ call'.err = "none"
                     /\ driverPerformanceResults'[s] = call'.ret
                     /\ driverPerformanceResults'[s] =
                            FHEgt(driverOrderCounts[s],
                                  FHEasEuint32(targetThreshold))
                  \/ /\ call'.op \in DeregisterOps
                     /\ call'.err = "none"
                     /\ registeredDrivers[s]
                     /\ ~registeredDrivers'[s]
                     /\ driverPerformanceResults'[s] = Unset
       /\ \A c \in ResultInputs.submitters, s \in ResultInputs.subjects,
             ts \in Timestamps :
              (/\ call'.op = "evaluatePerformance"
               /\ ~paused
               /\ evaluatePerformance(c, s, ts)) =>
                  /\ call'.err = "none"
                  /\ driverPerformanceResults'[s] =
                         FHEgt(driverOrderCounts[s],
                               FHEasEuint32(targetThreshold))
                  /\ \A d \in AddressSpace \ {s} :
                         driverPerformanceResults'[d] =
                             driverPerformanceResults[d]]_vars

\* a result computed under the threshold 5 is still stored after the
\* threshold went back to 10
ResultChangesByEvaluationWitness ==
    /\ FHEisInitialized(getPerformanceResult("a1"))
    /\ getPerformanceResult("a1")[3] = FHEasEuint32(U32(5))
    /\ targetThreshold = U32(10)
    /\ call.op = "resetThresholdToDefault"
    /\ Succeeded

----------------------------------------------------------------------------
(* Threshold authority *)

\* C28: targetThreshold changes only in a call made by the current owner.
ThresholdChangesByOwner ==
    [][targetThreshold' # targetThreshold =>
          /\ events' # <<>>
          /\ events'[1].kind = "TargetThresholdUpdated"
          /\ events'[1].actor = owner]_vars

----------------------------------------------------------------------------
(* The minimal contract, src/contracts/DriverPerformance.sol: the same     *)
(* storage, events without timestamps, no deregistration and no threshold  *)
(* arithmetic.  Its functions carry the suffix _minimal.                   *)

DriverRegistered_minimal(driver) ==
    [kind |-> "DriverRegistered", driver |-> driver]

OrderCountSubmitted_minimal(driver, submitter) ==
    [kind |-> "OrderCountSubmitted", driver |-> driver, actor |-> submitter]

PerformanceEvaluated_minimal(driver) ==
    [kind |-> "PerformanceEvaluated", driver |-> driver]

TargetThresholdUpdated_minimal(oldThreshold, newThreshold) ==
    [kind |-> "TargetThresholdUpdated", oldThreshold |-> oldThreshold,
     newThreshold |-> newThreshold]

ContractPaused_minimal(account) ==
    [kind |-> "ContractPaused", actor |-> account]

ContractUnpaused_minimal(account) ==
    [kind |-> "ContractUnpaused", actor |-> account]

OwnershipTransferred_minimal(previousOwner, newOwner) ==
    [kind |-> "OwnershipTransferred", previousOwner |-> previousOwner,
     newOwner |-> newOwner]

registerDriver_minimal(sender, driver) ==
    IF driver = Null THEN
        Revert("registerDriver", sender, driver, "InvalidAddress")
    ELSE IF registeredDrivers[driver] THEN
        Revert("registerDriver", sender, driver, "DriverAlreadyRegistered")
    ELSE
        /\ registeredDrivers' = [registeredDrivers EXCEPT ![driver] = TRUE]
        /\ registeredDriverList' = Append(registeredDriverList, driver)
        /\ cachedDriverCount' = Len(registeredDriverList')
        /\ Done("registerDriver", sender, driver,
                <<DriverRegistered_minimal(driver)>>)
        /\ UNCHANGED <<driverOrderCounts, driverPerformanceResults,
                       targetThreshold, owner, paused, cachedThreshold, acl>>

\* no owner check; the loop is the full contract's, its events carry the
\* driver only, and no completion event follows
batchRegisterDrivers_minimal(sender, drivers, lowAfter) ==
    IF Len(drivers) = 0 THEN
        Revert("batchRegisterDrivers", sender, Null, "EmptyDriverList")
    ELSE IF Len(drivers) > MAX_BATCH_SIZE THEN
        Revert("batchRegisterDrivers", sender, Null, "BatchSizeTooLarge")
    ELSE
        LET r == BatchRegisterLoop(drivers,
                                   NextToRegister(drivers, 1, registeredDrivers),
                                   registeredDrivers,
                                   registeredDriverList, 0, <<>>,
                                   [sender |-> sender, ts |-> 0], lowAfter)
        IN  IF ~r.ok THEN
                Revert("batchRegisterDrivers", sender, Null,
                       "Invalid driver address")
            ELSE
                /\ registeredDrivers' = r.reg
                /\ registeredDriverList' = r.list
                /\ cachedDriverCount' =
                       BatchCount(r.newRegistrations, r.list, cachedDriverCount)
                /\ Return("batchRegisterDrivers",
                          [i \in 1..Len(r.logs) |->
                              DriverRegistered_minimal(r.logs[i].driver)],
                          Unset, r.early)
                /\ UNCHANGED <<driverOrderCounts, driverPerformanceResults,
                               targetThreshold, owner, paused, cachedThreshold,
                               acl>>

\* no owner check
setTargetThreshold_minimal(sender, newThreshold) ==
    /\ targetThreshold' = newThreshold
    /\ cachedThreshold' = newThreshold
    /\ Done("setTargetThreshold", sender, Null,
            <<TargetThresholdUpdated_minimal(targetThreshold, newThreshold)>>)
    /\ UNCHANGED <<driverOrderCounts, driverPerformanceResults,
                   registeredDrivers, registeredDriverList, owner, paused,
                   cachedDriverCount, acl>>

\* whenNotPaused only
pause_minimal(sender) ==
    IF ~whenNotPaused THEN
        Revert("pause", sender, Null, "ContractPaused")
    ELSE
        /\ paused' = TRUE
        /\ Done("pause", sender, Null, <<ContractPaused_minimal(sender)>>)
        /\ UNCHANGED <<driverOrderCounts, driverPerformanceResults,
                       registeredDrivers, registeredDriverList,
                       targetThreshold, owner, cachedDriverCount,
                       cachedThreshold, acl>>

\* whenPaused only
unpause_minimal(sender) ==
    IF ~whenPaused THEN
        Revert("unpause", sender, Null, "ContractNotPaused")
    ELSE
        /\ paused' = FALSE
        /\ Done("unpause", sender, Null, <<ContractUnpaused_minimal(sender)>>)
        /\ UNCHANGED <<driverOrderCounts, driverPerformanceResults,
                       registeredDrivers, registeredDriverList,
                       targetThreshold, owner, cachedDriverCount,
                       cachedThreshold, acl>>

\* no owner check
transferOwnership_minimal(sender, newOwner) ==
    IF newOwner = Null THEN
        Revert("transferOwnership", sender, Null, "InvalidAddress")
    ELSE
        /\ owner' = newOwner
        /\ Done("transferOwnership", sender, Null,
                <<OwnershipTransferred_minimal(owner, newOwner)>>)
        /\ UNCHANGED <<driverOrderCounts, driverPerformanceResults,
                       registeredDrivers, registeredDriverList,
                       targetThreshold, paused, cachedDriverCount,
                       cachedThreshold, acl>>

\* no owner check
renounceOwnership_minimal(sender) ==
    /\ owner' = Null
    /\ Done("renounceOwnership", sender, Null,
            <<OwnershipTransferred_minimal(owner, Null)>>)
    /\ UNCHANGED <<driverOrderCounts, driverPerformanceResults,
                   registeredDrivers, registeredDriverList,
                   targetThreshold, paused, cachedDriverCount,
                   cachedThreshold, acl>>


submitOrderCount_minimal(sender, driver, encryptedOrderCount, proofOk) ==
    IF ~whenNotPaused THEN
        Revert("submitOrderCount", sender, driver, "ContractPaused")
    ELSE IF driver = Null THEN
        Revert("submitOrderCount", sender, driver, "InvalidAddress")
    ELSE IF ~proofOk THEN
        Revert("submitOrderCount", sender, driver, "InvalidProof")
    ELSE
        LET orderCount == FHEfromExternal(encryptedOrderCount)
        IN  /\ driverOrderCounts' =
                   [driverOrderCounts EXCEPT ![driver] = orderCount]
            /\ acl' = SubmitGrants(acl, orderCount, driver, sender)
            /\ Done("submitOrderCount", sender, driver,
                    <<OrderCountSubmitted_minimal(driver, sender)>>)
            /\ UNCHANGED <<driverPerformanceResults, registeredDrivers,
                           registeredDriverList, targetThreshold, owner,
                           paused, cachedDriverCount, cachedThreshold>>

evaluatePerformance_minimal(sender, driver) ==
    IF ~whenNotPaused THEN
        Revert("evaluatePerformance", sender, driver, "ContractPaused")
    ELSE IF driver = Null THEN
        Revert("evaluatePerformance", sender, driver, "InvalidAddress")
    ELSE
        LET orderCount == driverOrderCounts[driver]
            isGood == IsGood(orderCount, targetThreshold)
        IN  /\ driverPerformanceResults' =
                   [driverPerformanceResults EXCEPT ![driver] = isGood]
            /\ acl' = EvaluateGrants(acl, isGood, driver)
            /\ Return("evaluatePerformance",
                      <<PerformanceEvaluated_minimal(driver)>>, isGood, FALSE)
            /\ UNCHANGED <<driverOrderCounts, registeredDrivers,
                           registeredDriverList, targetThreshold, owner,
                           paused, cachedDriverCount, cachedThreshold>>

\* one external call to the minimal contract; the registry holds one
\* subject, and every caller makes every lifecycle and ownership call
NextMinimal ==
    \/ \E sender \in Callers : registerDriver_minimal(sender, "a1")
    \/ \E sender \in Callers :
           batchRegisterDrivers_minimal(sender, <<"a1">>, 1)
    \/ \E sender \in Callers : setTargetThreshold_minimal(sender, U32(5))
    \/ \E sender \in Callers : pause_minimal(sender)
    \/ \E sender \in Callers : unpause_minimal(sender)
    \/ \E sender \in Callers, newOwner \in Addresses :
           transferOwnership_minimal(sender, newOwner)
    \/ \E sender \in Callers : renounceOwnership_minimal(sender)
    \/ \E driver \in {"a1", Null}, proofOk \in BOOLEAN :
           submitOrderCount_minimal("a2", driver, 1, proofOk)
    \/ \E driver \in {"a1", Null} : evaluatePerformance_minimal("a2", driver)

\* the minimal contract deployed by Deployer with the default threshold
SpecMinimal == Init /\ [][NextMinimal]_vars

\* the lifecycle and ownership calls of the minimal contract made by sender
AdminCall_minimal(sender) ==
    \/ pause_minimal(sender)
    \/ unpause_minimal(sender)
    \/ \E newOwner \in Addresses : transferOwnership_minimal(sender, newOwner)
    \/ renounceOwnership_minimal(sender)

\* C29: in the minimal contract, pause, unpause, transferOwnership and
\* renounceOwnership called by anyone but the current owner fail with
\* UnauthorizedAccess and leave paused and owner as they were.
AdminIsOwnerOnly_minimal ==
    [][\A sender \in Callers \ {owner} :
           AdminCall_minimal(sender) =>
               /\ call'.err = "UnauthorizedAccess"
               /\ UNCHANGED <<paused, owner>>]_vars


----------------------------------------------------------------------------
(* Ownership hand-over *)

\* C30 as stated: owner becomes the null identifier only in a successful
\* renounceOwnership(); transferOwnership(null) fails with InvalidAddress for
\* every caller and leaves owner unchanged; a successful
\* transferOwnership(n) sets owner to n, and the previous owner is then not
\* the owner any more.
OwnershipMovesAsStated ==
    [][/\ (owner # Null /\ owner' = Null) =>
              (call'.op = "renounceOwnership" /\ call'.err = "none")
       /\ call'.op = "transferOwnership" =>
              \A c \in Callers, n \in Addresses, ts \in Timestamps :
                  transferOwnership(c, n, ts) =>
                      IF n = Null
                      THEN call'.err = "InvalidAddress" /\ owner' = owner
                      ELSE call'.err = "none" =>
                               (owner' = n /\ owner' # owner)]_vars

\* C30: owner becomes the null identifier only in a successful
\* renounceOwnership(); transferOwnership(null) fails for every caller, with
\* InvalidAddress for the owner and with UnauthorizedAccess for anyone else,
\* logs nothing and leaves all storage unchanged; a successful
\* transferOwnership(n) is made by the owner, sets owner to n and changes
\* nothing else, and unless n is the previous owner the previous owner is
\* then not the owner any more.
OwnershipMoves ==
    [][/\ (owner # Null /\ owner' = Null) =>
              (call'.op = "renounceOwnership" /\ call'.err = "none")
       /\ call'.op = "transferOwnership" =>
              \A c \in Callers, n \in Addresses, ts \in Timestamps :
                  transferOwnership(c, n, ts) =>
                      IF n = Null
                      THEN /\ call'.err = IF onlyOwner(c) THEN "InvalidAddress"
                                          ELSE "UnauthorizedAccess"
                           /\ events' = <<>>
                           /\ UNCHANGED storage
                      ELSE call'.err = "none" =>
                               /\ onlyOwner(c)
                               /\ owner' = n
                               /\ n # owner => owner' # owner
                               /\ paused' = paused
                               /\ targetThreshold' = targetThreshold
                               /\ registeredDriverList' = registeredDriverList]_vars

\* ownership went from the deployer to another caller in one call
OwnershipMovesWitness ==
    /\ call.op = "transferOwnership"
    /\ call.err = "none"
    /\ events[1].previousOwner = Deployer
    /\ owner \in Callers \ {Deployer}


----------------------------------------------------------------------------
(* Threshold arithmetic and evaluation at the ends of the uint32 range *)

\* the threshold set to 0 and moved by 2^32 - 1 and 2^32 - 1 - 10: it takes
\* the values 0, 10, 2^32 - 1 - 10 and 2^32 - 1, and every other sum or
\* difference leaves the uint32 range; the store is called with the null
\* subject only
ThresholdInputs ==
    [callers |-> Callers,
     drivers |-> {"a1"},
     batches |-> {<<"a1">>},
     lowAfter |-> {1},
     thresholds |-> {U32(0)},
     deltas |-> {BigDelta, MaxUint32},
     newOwners |-> {Null},
     submitters |-> {"a2"},
     subjects |-> {Null},
     ciphertexts |-> {1}]

NextThreshold == NextOver(ThresholdInputs)

SpecThreshold == Init /\ [][NextThreshold]_vars


\* the threshold at 0, 10 and 2^32 - 1, and one subject that is registered,
\* deregistered, given a value and evaluated
UnsetInputs ==
    [callers |-> {Deployer},
     drivers |-> {"a1"},
     batches |-> {<<"a1">>},
     lowAfter |-> {1},
     thresholds |-> {U32(0)},
     deltas |-> {MaxUint32},
     newOwners |-> {Null},
     submitters |-> {"a2"},
     subjects |-> {"a1"},
     ciphertexts |-> {1}]

NextUnset == NextOver(UnsetInputs)

SpecUnset == Init /\ [][NextUnset]_vars


----------------------------------------------------------------------------
(* The null subject *)

\* C32 as stated: submitOrderCount and evaluatePerformance called with the
\* null address fail with InvalidAddress in every state, paused or not, and
\* change no state.
NullSubjectIsInvalid ==
    [][\A c \in Callers, ct \in Ciphertexts, proofOk \in BOOLEAN,
          ts \in Timestamps :
          (/\ call'.op \in {"submitOrderCount", "evaluatePerformance"}
           /\ \/ submitOrderCount(c, Null, ct, proofOk, ts)
              \/ evaluatePerformance(c, Null, ts)) =>
              /\ call'.err = "InvalidAddress"
              /\ events' = <<>>
              /\ UNCHANGED storage]_vars

\* C32: submitOrderCount and evaluatePerformance called with the null
\* address fail in every state, log nothing and change no state: with
\* ContractPaused while the contract is paused, because the pause test runs
\* first, and with InvalidAddress otherwise.
NullSubjectFails ==
    [][\A c \in Callers, ct \in Ciphertexts, proofOk \in BOOLEAN,
          ts \in Timestamps :
          (/\ call'.op \in {"submitOrderCount", "evaluatePerformance"}
           /\ \/ submitOrderCount(c, Null, ct, proofOk, ts)
              \/ evaluatePerformance(c, Null, ts)) =>
              /\ call'.err = IF paused THEN "ContractPaused"
                             ELSE "InvalidAddress"
              /\ events' = <<>>
              /\ UNCHANGED storage]_vars

\* an evaluation of the null address was rejected while a driver had a value
NullSubjectFailsWitness ==
    /\ call.op = "evaluatePerformance"
    /\ call.err = "InvalidAddress"
    /\ ~paused
    /\ \E s \in Drivers : FHEisInitialized(getDriverOrderCount(s))


----------------------------------------------------------------------------
(* Confidential state and registration *)

\* C33: in every state a driver that is not registered has no stored value
\* and no stored result.
OnlyRegisteredHaveState ==
    \A s \in AddressSpace :
        ~isDriverRegistered(s) =>
            /\ ~FHEisInitialized(getDriverOrderCount(s))
            /\ ~FHEisInitialized(getPerformanceResult(s))


----------------------------------------------------------------------------
(* Who may deregister *)

\* C34: deregisterDriver(s) and batchDeregisterDrivers(<<s>>) on a
\* registered driver s succeed for every caller, whoever the owner is and
\* whether or not the contract is paused: s leaves the registry and the
\* list, its value and its result are cleared, the event names the caller,
\* and owner and paused stay as they are.
AnyoneDeregisters ==
    [][\A c \in Callers, s \in Drivers, ts \in Timestamps :
          (/\ call'.op \in DeregisterOps
           /\ isDriverRegistered(s)
           /\ \/ deregisterDriver(c, s, ts)
              \/ \E lowAfter \in EvaluatorInputs.lowAfter :
                     batchDeregisterDrivers(c, <<s>>, ts, lowAfter)) =>
              /\ call'.err = "none"
              /\ ~isDriverRegistered(s)'
              /\ s \notin Range(registeredDriverList')
              /\ ~FHEisInitialized(getDriverOrderCount(s)')
              /\ ~FHEisInitialized(getPerformanceResult(s)')
              /\ events'[1].kind = "DriverDeregistered"
              /\ events'[1].driver = s
              /\ events'[1].actor = c
              /\ UNCHANGED <<owner, paused>>]_vars

\* a caller that is neither the driver nor the owner deregistered the driver
\* while the contract was paused and had no owner
AnyoneDeregistersWitness ==
    /\ call.op \in DeregisterOps
    /\ call.err = "none"
    /\ paused
    /\ owner = Null
    /\ Len(events) > 0
    /\ events[1].kind = "DriverDeregistered"
    /\ events[1].actor \notin {events[1].driver, Deployer}


----------------------------------------------------------------------------
(* Threshold arithmetic *)

\* a uint32 as 4 * Quarter + Rest, so that the sum of two fits an integer
Quarter(v) == v[1] * (LimbBase \div 4) + v[2] \div 4

Rest(v) == v[2] % 4

\* a + b, as a number of quarters and a rest
QuarterSum(a, b) ==
    [quarter |-> Quarter(a) + Quarter(b) + (Rest(a) + Rest(b)) \div 4,
     rest |-> (Rest(a) + Rest(b)) % 4]

\* a + b <= 2^32 - 1
SumFits(a, b) == QuarterSum(a, b).quarter < (LimbBase \div 4) * LimbBase

\* a + b = c
IsSum(a, b, c) ==
    /\ Quarter(c) = QuarterSum(a, b).quarter
    /\ Rest(c) = QuarterSum(a, b).rest

InUint32(v) == v[1] \in 0..(LimbBase - 1) /\ v[2] \in 0..(LimbBase - 1)

\* C35: targetThreshold is always a uint32; incrementThreshold(d) fails and
\* leaves it unchanged when targetThreshold + d exceeds 2^32 - 1 and
\* otherwise sets it to targetThreshold + d; decrementThreshold(d) fails and
\* leaves it unchanged when d exceeds targetThreshold and otherwise sets it
\* to targetThreshold - d; resetThresholdToDefault sets it to 10.
ThresholdNeverWraps ==
    /\ []InUint32(targetThreshold)
    /\ [][\A c \in Callers, d \in ThresholdInputs.deltas, ts \in Timestamps :
           /\ (/\ call'.op = "incrementThreshold"
               /\ incrementThreshold(c, d, ts)) =>
                  IF SumFits(targetThreshold, d)
                  THEN /\ call'.err = "none"
                       /\ IsSum(targetThreshold, d, targetThreshold')
                  ELSE /\ call'.err # "none"
                       /\ targetThreshold' = targetThreshold
           /\ (/\ call'.op = "decrementThreshold"
               /\ decrementThreshold(c, d, ts)) =>
                  IF U32Gt(d, targetThreshold)
                  THEN /\ call'.err # "none"
                       /\ targetThreshold' = targetThreshold
                  ELSE /\ call'.err = "none"
                       /\ IsSum(targetThreshold', d, targetThreshold)
           /\ (/\ call'.op = "resetThresholdToDefault"
               /\ resetThresholdToDefault(c, ts)) =>
                  /\ call'.err = "none"
                  /\ targetThreshold' = U32(10)]_vars

\* an increment took the threshold to 2^32 - 1
ThresholdNeverWrapsWitness ==
    /\ call.op = "incrementThreshold"
    /\ call.err = "none"
    /\ targetThreshold = MaxUint32
    /\ events[1].oldThreshold # U32(0)


----------------------------------------------------------------------------
(* Position of the budget check in the batch loops *)

\* one batch whose first two entries are skipped whenever a2 is in the
\* registry (for registration) or not in it (for deregistration), and a2
\* entering and leaving the registry on its own; the budget reads low at
\* the first check or never
BudgetInputs ==
    [callers |-> {Deployer},
     drivers |-> {"a2"},
     batches |-> {RepeatBatch, <<"a2">>},
     lowAfter |-> {1, Len(RepeatBatch)},
     thresholds |-> {DEFAULT_THRESHOLD},
     deltas |-> {MaxUint32},
     newOwners |-> {Null},
     submitters |-> {Deployer},
     subjects |-> {"a2"},
     ciphertexts |-> {1}]

NextBudget == NextOver(BudgetInputs)

SpecBudget == Init /\ [][NextBudget]_vars


\* the entries of a batch the registry holds, and those it does not
Listed(drivers) == {j \in 1..Len(drivers) : isDriverRegistered(drivers[j])}

Unlisted(drivers) == (1..Len(drivers)) \ Listed(drivers)

\* C36: the batch loops test the remaining budget only after a change: a
\* successful batchRegisterDrivers call with an entry that is not yet
\* registered registers at least one driver even when the budget reads low
\* at the first test, a call that stops early has registered at least one,
\* and a batch of registered entries only is read to its end and changes
\* nothing; likewise for batchDeregisterDrivers with registered and
\* unregistered exchanged.
BudgetCheckedAfterChange ==
    [][\A c \in BudgetInputs.callers, drivers \in BudgetInputs.batches,
          lowAfter \in BudgetInputs.lowAfter, ts \in Timestamps :
          /\ (/\ call'.op = "batchRegisterDrivers"
              /\ batchRegisterDrivers(c, drivers, ts, lowAfter)
              /\ call'.err = "none") =>
                 /\ Unlisted(drivers) # {} =>
                        /\ Len(registeredDriverList') >
                               Len(registeredDriverList)
                        /\ registeredDrivers'[
                               drivers[Least(Unlisted(drivers))]]
                 /\ call'.early =>
                        Len(registeredDriverList') > Len(registeredDriverList)
                 /\ Unlisted(drivers) = {} =>
                        /\ ~call'.early
                        /\ events' = <<>>
                        /\ UNCHANGED storage
          /\ (/\ call'.op = "batchDeregisterDrivers"
              /\ batchDeregisterDrivers(c, drivers, ts, lowAfter)
              /\ call'.err = "none") =>
                 /\ Listed(drivers) # {} =>
                        /\ Len(registeredDriverList') <
                               Len(registeredDriverList)
                        /\ ~registeredDrivers'[
                               drivers[Least(Listed(drivers))]]
                 /\ call'.early =>
                        Len(registeredDriverList') < Len(registeredDriverList)
                 /\ Listed(drivers) = {} =>
                        /\ ~call'.early
                        /\ events' = <<>>
                        /\ UNCHANGED storage]_vars

\* a batch registered a1, its third entry, after two skipped entries and
\* stopped at the budget check that followed
BudgetCheckedAfterChangeWitness ==
    /\ call.op = "batchRegisterDrivers"
    /\ call.err = "none"
    /\ call.early
    /\ Len(events) = 2
    /\ events[1].kind = "DriverRegistered"
    /\ events[1].driver = RepeatBatch[Len(RepeatBatch)]
    /\ isDriverRegistered(RepeatBatch[1])

====
